---- MODULE Spec2Model ----
(***************************************************************************)
(* A model of reminex: the indexing pipeline of indexer.rs (a parallel     *)
(* directory walk feeding a bounded channel that one writer thread drains  *)
(* in batches), the record store of db.rs, and the keyword search of       *)
(* searcher.rs.                                                            *)
(*                                                                         *)
(* Paths are sequences of components; Option<T> is <<>> (None) or <<v>>    *)
(* (Some(v)). A store is a bag of rows (a row maps to the number of times  *)
(* the table holds it), so that a table with two rows for one path is a    *)
(* state the model can tell from a table with one.                         *)
(***************************************************************************)
EXTENDS Integers, Sequences, FiniteSets, Bags, TLC

VARIABLES
    \* ---- the filesystem the scan walks (it does not change during a behaviour)
    fs,            \* [root: kind of the root path, unreadable: dirs whose listing fails]
    \* ---- the store (the rows of table files of one .reminex.db)
    store,
    \* ---- one call of scan_idxs / scan_idxs_with_metadata
    batch_size,    \* the batch_size argument
    withMeta,      \* TRUE: scan_idxs_with_metadata, FALSE: scan_idxs
    mainpc,        \* position of the calling thread
    result,        \* what the call returned: <<>> before it returns
    task,          \* per directory-like path: position of its scan_directory_parallel call
    handled,       \* files whose par_iter closure has run
    skipped_paths, \* the Mutex<Vec<String>> of skipped paths
    chan,          \* the bounded channel's queue
    rxAlive,       \* the Receiver has not been dropped
    wpc,           \* position of the writer thread
    batch,         \* the writer's Vec<Index>
    counter,       \* the AtomicU64 progress counter
    \* ---- history variables of the run
    run,           \* number of calls started
    emitted,       \* records whose send returned Ok
    nEmitted,      \* number of sends that returned Ok
    commits,       \* sizes of the batches committed so far, in order
    nFailed,       \* number of add_idxs calls of the writer that returned Err
    startStore,    \* the store when the call started
    prev,          \* [ok, meta] of the previous call: <<>> when there is none
    \* ---- direct calls of the Database API
    dbCall,        \* the last add_idx / add_idxs call: its arguments, the store before, its result
    \* ---- search_by_keyword
    search         \* the last search_by_keyword call and the queries issued so far

idxVars == <<fs, batch_size, withMeta, mainpc, result, task, handled, skipped_paths,
             chan, rxAlive, wpc, batch, counter, run, emitted, nEmitted, commits,
             nFailed, startStore, prev>>
vars == <<idxVars, store, dbCall, search>>

-----------------------------------------------------------------------------
(* Bounds of the model *)

\* batch_size ranges over 1..MaxBatch
MaxBatch == 3
\* at most MaxRuns indexing runs in a behaviour
MaxRuns == 2
\* at most MaxUnreadable directories of the tree cannot be listed
MaxUnreadable == 1
\* a direct call of add_idxs passes at most MaxBatchLen records
MaxBatchLen == 2
\* a search keyword has at most MaxKeywordLen characters
MaxKeywordLen == 2
\* max_results ranges over 0..MaxLimit
MaxLimit == 2
\* the longest raw input handed to parse_search_keywords
MaxInputLen == 4
\* the most results handed to build_tree
MaxTreeResults == 3
\* the largest max_entries of a SearchHistory, and the number of calls made on it
MaxEntries == 2
MaxHistoryCalls == 4

-----------------------------------------------------------------------------
(* The directory tree *)

None == <<>>
Some(v) == <<v>>

Root == <<"r">>

\* What each path below the root is: a regular file, a directory, an entry that is
\* neither (is_file() is false and read_dir fails: a dangling symlink, a socket),
\* or an entry whose DirEntry read_dir yields as Err.
Kind ==
    ( <<"r", "f1">>           :> "file"  @@
      <<"r", "a">>            :> "dir"   @@
      <<"r", "b">>            :> "dir"   @@
      <<"r", "x">>            :> "other" @@
      <<"r", "a", "f2">>      :> "file"  @@
      <<"r", "b", "f3">>      :> "file"  @@
      <<"r", "b", "c">>       :> "dir"   @@
      <<"r", "b", "e">>       :> "err"   @@
      <<"r", "b", "c", "f4">> :> "file" )

\* Modification time (seconds relative to the Unix epoch) and length of each file
Mtime == ( <<"r", "f1">> :> 100 @@ <<"r", "a", "f2">> :> 200 @@
           <<"r", "b", "f3">> :> (0 - 5) @@ <<"r", "b", "c", "f4">> :> 400 )
Size == ( <<"r", "f1">> :> 5 @@ <<"r", "a", "f2">> :> 13 @@
          <<"r", "b", "f3">> :> 0 @@ <<"r", "b", "c", "f4">> :> 7 )

\* the files whose fs::metadata fails
StatFail == {<<"r", "a", "f2">>}

Below == DOMAIN Kind
AllPaths == {Root} \cup Below
Files == {p \in Below : Kind[p] = "file"}
Dirs == {p \in Below : Kind[p] = "dir"}
\* the paths scan_directory_parallel can be called on
Scannable == {Root} \cup {p \in Below : Kind[p] # "file" /\ Kind[p] # "err"}

IsPrefix(d, p) == Len(d) <= Len(p) /\ SubSeq(p, 1, Len(d)) = d
Under(d, p) == Len(d) < Len(p) /\ IsPrefix(d, p)
Parent(p) == SubSeq(p, 1, Len(p) - 1)
Children(d) == {p \in Below : Parent(p) = d}
FileName(p) == p[Len(p)]

KindOf(p) == IF p = Root THEN fs.root ELSE Kind[p]

\* Path::exists
Exists(p) == KindOf(p) # "absent"

\* fs::read_dir(root) and the filter_map(|e| e.ok()) over its entries
ReadDir(d) ==
    IF KindOf(d) = "dir" /\ d \notin fs.unreadable
    THEN [ok |-> TRUE, entries |-> {p \in Children(d) : Kind[p] # "err"}]
    ELSE [ok |-> FALSE, entries |-> {}]

\* entries.into_iter().partition(|entry| entry.path().is_file())
PartFiles(d) == {p \in ReadDir(d).entries : Kind[p] = "file"}
PartDirs(d) == {p \in ReadDir(d).entries : Kind[p] # "file"}

-----------------------------------------------------------------------------
(* db.rs: Index and Database *)

\* Index::new
IndexNew(path, name) == [path |-> path, name |-> name, mtime |-> None, size |-> None]
\* Index::with_metadata
IndexWithMetadata(path, name, mtime, size) ==
    [path |-> path, name |-> name, mtime |-> Some(mtime), size |-> Some(size)]

\* the rows of a store, and the rows that hold a path
Rows(db) == DOMAIN db
RowsAt(db, path) == {r \in DOMAIN db : r.path = path}
Paths(db) == {r.path : r \in DOMAIN db}

\* INSERT without OR REPLACE on a table without the key: one more row
InsertPlain(db, idx) == db (+) SetToBag({idx})

\* INSERT OR REPLACE INTO files: path is the PRIMARY KEY, so the row that holds the
\* path, if any, is deleted and the new row inserted
InsertOrReplace(db, idx) ==
    [r \in {x \in DOMAIN db : x.path # idx.path} \cup {idx} |-> IF r = idx THEN 1 ELSE db[r]]

\* the for loop of add_idxs over the first n records of idxs, inside the transaction
RECURSIVE ExecuteAll(_, _, _)
ExecuteAll(db, idxs, n) ==
    IF n = 0 THEN db
    ELSE InsertOrReplace(ExecuteAll(db, idxs, n - 1), idxs[n])

\* Where a call of add_idxs on n records fails: 0 nowhere; 1 before the first
\* execute (connect, transaction or prepare); 1 + k at the k-th execute;
\* n + 2 at commit.
FailPoints(n) == 0 .. (n + 2)
\* the number of executes that succeeded before the failure, if any
Executed(n, failAt) ==
    IF failAt = 0 \/ failAt = n + 2 THEN n ELSE IF failAt = 1 THEN 0 ELSE failAt - 2

\* add_idxs that leaves the rows written before the failure in place
AddIdxsNoRollback(db, idxs, failAt) ==
    [ok |-> failAt = 0, db |-> ExecuteAll(db, idxs, Executed(Len(idxs), failAt))]

\* add_idxs that empties the table before it writes the batch
AddIdxsReplaceAll(db, idxs, failAt) ==
    IF failAt = 0
    THEN [ok |-> TRUE, db |-> ExecuteAll(EmptyBag, idxs, Len(idxs))]
    ELSE [ok |-> FALSE, db |-> db]

\* Database::add_idxs: every `?` drops the Transaction, which rolls it back
AddIdxs(db, idxs, failAt) ==
    IF failAt = 0
    THEN [ok |-> TRUE, db |-> ExecuteAll(db, idxs, Len(idxs))]
    ELSE [ok |-> FALSE, db |-> db]

\* add_idx that inserts without replacing
AddIdxPlain(db, idx, fails) ==
    IF fails THEN [ok |-> FALSE, db |-> db] ELSE [ok |-> TRUE, db |-> InsertPlain(db, idx)]

\* Database::add_idx: one INSERT OR REPLACE in autocommit mode
AddIdx(db, idx, fails) ==
    IF fails THEN [ok |-> FALSE, db |-> db] ELSE [ok |-> TRUE, db |-> InsertOrReplace(db, idx)]

-----------------------------------------------------------------------------
(* indexer.rs: the records the two scans build *)

\* extract_metadata: fs::metadata fails, or duration_since(UNIX_EPOCH) fails for a
\* modification time before the epoch; metadata.modified() is supported
ExtractMetadata(p) ==
    IF p \in StatFail THEN [ok |-> FALSE, mtime |-> 0, size |-> 0]
    ELSE IF Mtime[p] < 0 THEN [ok |-> FALSE, mtime |-> 0, size |-> 0]
    ELSE [ok |-> TRUE, mtime |-> Mtime[p], size |-> Size[p]]

\* the closure of files.par_iter() in scan_directory_parallel
FileIndex(p) == IndexNew(p, FileName(p))

\* a closure that keeps whatever part of the metadata it has
FileIndexPartialMetadata(p) ==
    LET m == ExtractMetadata(p) IN
    IF m.ok THEN IndexWithMetadata(p, FileName(p), m.mtime, m.size)
    ELSE [path |-> p, name |-> FileName(p), mtime |-> None, size |-> Some(Size[p])]

\* a closure that names the record after the directory the file is in
FileIndexWithMetadataDirName(p) ==
    LET m == ExtractMetadata(p) IN
    IF m.ok THEN IndexWithMetadata(p, FileName(Parent(p)), m.mtime, m.size)
    ELSE IndexNew(p, FileName(Parent(p)))

\* the closure of files.par_iter() in scan_directory_parallel_with_metadata
FileIndexWithMetadata(p) ==
    LET m == ExtractMetadata(p) IN
    IF m.ok THEN IndexWithMetadata(p, FileName(p), m.mtime, m.size)
    ELSE IndexNew(p, FileName(p))

\* the record the running scan sends for file p
Emit(p) == IF withMeta THEN FileIndexWithMetadata(p) ELSE FileIndex(p)

\* bounded::<Index>(batch_size * 2)
Capacity == batch_size * 2

\* the root is scanned whether it exists or not
ExistsUnchecked(p) == TRUE

\* a check that lets only a directory pass
RootIsDirectory(p) == KindOf(p) = "dir"

\* if !root.exists() { bail!(..) }
RootExists(p) == Exists(p)

-----------------------------------------------------------------------------
(* Initial states *)

EmptyStore == EmptyBag
\* a store left by an earlier indexing of an older tree: r/f1 with other metadata,
\* and a file that has since been deleted
StaleStore == SetToBag({ IndexWithMetadata(<<"r", "f1">>, "f1", 1, 1),
                         IndexNew(<<"r", "gone">>, "gone") })

FsChoices ==
    { [root |-> "dir", unreadable |-> U] :
        U \in {X \in SUBSET ({Root} \cup Dirs) : Cardinality(X) <= MaxUnreadable} }
    \cup { [root |-> k, unreadable |-> {}] : k \in {"file", "absent"} }

NoTask == [d \in Scannable |-> "none"]

IdxIdle ==
    /\ mainpc = "idle"
    /\ withMeta = FALSE
    /\ result = None
    /\ task = NoTask
    /\ handled = {}
    /\ skipped_paths = <<>>
    /\ chan = <<>>
    /\ rxAlive = FALSE
    /\ wpc = "idle"
    /\ batch = <<>>
    /\ counter = 0
    /\ run = 0
    /\ emitted = {}
    /\ nEmitted = 0
    /\ commits = <<>>
    /\ nFailed = 0
    /\ prev = None

NoDbCall == [op |-> "none", idxs |-> <<>>, failAt |-> 0, before |-> EmptyBag, ok |-> TRUE]
NoSearch == [pc |-> "none"]

Init ==
    /\ fs \in FsChoices
    /\ store \in {EmptyStore, StaleStore}
    /\ batch_size \in 1 .. MaxBatch
    /\ startStore = store
    /\ IdxIdle
    /\ dbCall = NoDbCall
    /\ search = NoSearch

-----------------------------------------------------------------------------
(* scan_idxs / scan_idxs_with_metadata: the calling thread *)

\* The call starts: the root is checked, then the counter, the skip list and the
\* channel are created, the writer thread is spawned and the scan of the root begins.
StartRun(meta) ==
    /\ mainpc \in {"idle", "returned"}
    /\ run < MaxRuns
    /\ run' = run + 1
    /\ prev' = IF run = 0 THEN None ELSE Some([ok |-> result[1].ok, meta |-> withMeta])
    /\ withMeta' = meta
    /\ startStore' = store
    /\ handled' = {}
    /\ skipped_paths' = <<>>
    /\ chan' = <<>>
    /\ batch' = <<>>
    /\ counter' = 0
    /\ emitted' = {}
    /\ nEmitted' = 0
    /\ commits' = <<>>
    /\ nFailed' = 0
    /\ IF RootExists(Root)
       THEN /\ mainpc' = "scanning"
            /\ result' = None
            /\ rxAlive' = TRUE
            /\ wpc' = "recv"
            /\ task' = [NoTask EXCEPT ![Root] = "start"]
       ELSE /\ mainpc' = "returned"
            /\ result' = Some([ok |-> FALSE, skipped_paths |-> <<>>])
            /\ rxAlive' = FALSE
            /\ wpc' = "idle"
            /\ task' = NoTask
    /\ UNCHANGED <<fs, batch_size, store, dbCall, search>>

\* a caller that hands a clone of tx to the scan and keeps its own until it returns
SendersHeldByCaller ==
    Cardinality({d \in Scannable : task[d] \in {"start", "files", "dirs"}})
        + (IF mainpc = "scanning" THEN 1 ELSE 0)

\* the Senders alive: the tx moved into the root call and the clone each recursive
\* call holds until it returns
Senders == Cardinality({d \in Scannable : task[d] \in {"start", "files", "dirs"}})

\* writer_handle.join() and write_result?: the scan of the root has returned and the
\* writer thread has finished
Return ==
    /\ mainpc = "scanning"
    /\ task[Root] = "done"
    /\ wpc \in {"ok", "err"}
    /\ mainpc' = "returned"
    /\ result' = IF wpc = "ok"
                 THEN Some([ok |-> TRUE, skipped_paths |-> skipped_paths])
                 ELSE Some([ok |-> FALSE, skipped_paths |-> <<>>])
    /\ UNCHANGED <<fs, batch_size, withMeta, task, handled, skipped_paths, chan, rxAlive,
                   wpc, batch, counter, run, emitted, nEmitted, commits, nFailed,
                   startStore, prev, store, dbCall, search>>

-----------------------------------------------------------------------------
(* scan_directory_parallel / scan_directory_parallel_with_metadata: the workers *)

\* a listing failure that returns without recording the path
ListDirSilent(d) ==
    /\ task[d] = "start"
    /\ task' = [task EXCEPT ![d] = IF ReadDir(d).ok THEN "files" ELSE "done"]
    /\ UNCHANGED <<fs, batch_size, withMeta, mainpc, result, handled, chan, rxAlive,
                   wpc, batch, counter, run, emitted, nEmitted, commits, nFailed,
                   startStore, prev, store, dbCall, search, skipped_paths>>

\* a push without the Mutex: two workers can read the same length, and the later write
\* then takes the place of the earlier one
ListDirUnlocked(d) ==
    /\ task[d] = "start"
    /\ IF ReadDir(d).ok
       THEN /\ task' = [task EXCEPT ![d] = "files"]
            /\ UNCHANGED skipped_paths
       ELSE /\ task' = [task EXCEPT ![d] = "done"]
            /\ \E kept \in {n \in {Len(skipped_paths) - 1, Len(skipped_paths)} : n >= 0} :
                 skipped_paths' = Append(SubSeq(skipped_paths, 1, kept), d)
    /\ UNCHANGED <<fs, batch_size, withMeta, mainpc, result, handled, chan, rxAlive,
                   wpc, batch, counter, run, emitted, nEmitted, commits, nFailed,
                   startStore, prev, store, dbCall, search>>

\* fs::read_dir(root): on Err the path is pushed to the skip list and the call returns
ListDir(d) ==
    /\ task[d] = "start"
    /\ IF ReadDir(d).ok
       THEN /\ task' = [task EXCEPT ![d] = "files"]
            /\ UNCHANGED skipped_paths
       ELSE /\ task' = [task EXCEPT ![d] = "done"]
            /\ skipped_paths' = Append(skipped_paths, d)
    /\ UNCHANGED <<fs, batch_size, withMeta, mainpc, result, handled, chan, rxAlive,
                   wpc, batch, counter, run, emitted, nEmitted, commits, nFailed,
                   startStore, prev, store, dbCall, search>>

\* a send that waits for a free slot whether or not the receiver is still there
SendFileWaitsForSlot(d, p) ==
    /\ task[d] = "files"
    /\ p \in PartFiles(d) \ handled
    /\ rxAlive
    /\ Len(chan) < Capacity
    /\ chan' = Append(chan, Emit(p))
    /\ emitted' = emitted \cup {Emit(p)}
    /\ nEmitted' = nEmitted + 1
    /\ handled' = handled \cup {p}
    /\ UNCHANGED <<fs, batch_size, withMeta, mainpc, result, task, skipped_paths, rxAlive,
                   wpc, batch, counter, run, commits, nFailed, startStore, prev,
                   store, dbCall, search>>

\* a worker that sends with try_send: a record that finds the channel full is dropped
SendFileTrySend(d, p) ==
    /\ task[d] = "files"
    /\ p \in PartFiles(d) \ handled
    /\ \/ /\ rxAlive
          /\ Len(chan) < Capacity
          /\ chan' = Append(chan, Emit(p))
          /\ emitted' = emitted \cup {Emit(p)}
          /\ nEmitted' = nEmitted + 1
       \/ /\ ~rxAlive \/ Len(chan) >= Capacity
          /\ UNCHANGED <<chan, emitted, nEmitted>>
    /\ handled' = handled \cup {p}
    /\ UNCHANGED <<fs, batch_size, withMeta, mainpc, result, task, skipped_paths, rxAlive,
                   wpc, batch, counter, run, commits, nFailed, startStore, prev,
                   store, dbCall, search>>

\* a worker that, finding the channel full, writes its record to the store itself
SendFileWriteThrough(d, p) ==
    /\ task[d] = "files"
    /\ p \in PartFiles(d) \ handled
    /\ \/ /\ rxAlive
          /\ Len(chan) < Capacity
          /\ chan' = Append(chan, Emit(p))
          /\ emitted' = emitted \cup {Emit(p)}
          /\ nEmitted' = nEmitted + 1
          /\ UNCHANGED store
       \/ /\ rxAlive
          /\ Len(chan) >= Capacity
          /\ store' = AddIdxs(store, <<Emit(p)>>, 0).db
          /\ UNCHANGED <<chan, emitted, nEmitted>>
       \/ /\ ~rxAlive
          /\ UNCHANGED <<chan, emitted, nEmitted, store>>
    /\ handled' = handled \cup {p}
    /\ UNCHANGED <<fs, batch_size, withMeta, mainpc, result, task, skipped_paths, rxAlive,
                   wpc, batch, counter, run, commits, nFailed, startStore, prev,
                   dbCall, search>>

\* a send into a channel without a capacity: it never blocks
SendFileUnbounded(d, p) ==
    /\ task[d] = "files"
    /\ p \in PartFiles(d) \ handled
    /\ \/ /\ rxAlive
          /\ chan' = Append(chan, Emit(p))
          /\ emitted' = emitted \cup {Emit(p)}
          /\ nEmitted' = nEmitted + 1
       \/ /\ ~rxAlive
          /\ UNCHANGED <<chan, emitted, nEmitted>>
    /\ handled' = handled \cup {p}
    /\ UNCHANGED <<fs, batch_size, withMeta, mainpc, result, task, skipped_paths, rxAlive,
                   wpc, batch, counter, run, commits, nFailed, startStore, prev,
                   store, dbCall, search>>

\* one closure of files.par_iter().for_each: build the record and tx.send it. The send
\* blocks while the channel is full and returns Err, which is ignored, once the
\* receiver is dropped.
SendFile(d, p) ==
    /\ task[d] = "files"
    /\ p \in PartFiles(d) \ handled
    /\ \/ /\ rxAlive
          /\ Len(chan) < Capacity
          /\ chan' = Append(chan, Emit(p))
          /\ emitted' = emitted \cup {Emit(p)}
          /\ nEmitted' = nEmitted + 1
       \/ /\ ~rxAlive
          /\ UNCHANGED <<chan, emitted, nEmitted>>
    /\ handled' = handled \cup {p}
    /\ UNCHANGED <<fs, batch_size, withMeta, mainpc, result, task, skipped_paths, rxAlive,
                   wpc, batch, counter, run, commits, nFailed, startStore, prev,
                   store, dbCall, search>>

\* files.par_iter().for_each has returned; dirs.par_iter().for_each starts one
\* recursive call per entry that is not a file
ScanDirs(d) ==
    /\ task[d] = "files"
    /\ PartFiles(d) \subseteq handled
    /\ task' = [x \in Scannable |->
                  IF x = d THEN "dirs" ELSE IF x \in PartDirs(d) THEN "start" ELSE task[x]]
    /\ UNCHANGED <<fs, batch_size, withMeta, mainpc, result, handled, skipped_paths, chan,
                   rxAlive, wpc, batch, counter, run, emitted, nEmitted, commits, nFailed,
                   startStore, prev, store, dbCall, search>>

\* dirs.par_iter().for_each has returned: the call returns and drops its Sender
ScanReturn(d) ==
    /\ task[d] = "dirs"
    /\ \A c \in PartDirs(d) : task[c] = "done"
    /\ task' = [task EXCEPT ![d] = "done"]
    /\ UNCHANGED <<fs, batch_size, withMeta, mainpc, result, handled, skipped_paths, chan,
                   rxAlive, wpc, batch, counter, run, emitted, nEmitted, commits, nFailed,
                   startStore, prev, store, dbCall, search>>

-----------------------------------------------------------------------------
(* write_indices_batched_with_progress: the writer thread *)

\* a loop that commits only once the buffer has grown past batch_size
WriterRecvOverfill ==
    /\ wpc = "recv"
    /\ chan # <<>>
    /\ batch' = Append(batch, Head(chan))
    /\ chan' = Tail(chan)
    /\ wpc' = IF Len(batch) + 1 > batch_size THEN "commit" ELSE "recv"
    /\ UNCHANGED <<fs, batch_size, withMeta, mainpc, result, task, handled, skipped_paths,
                   rxAlive, counter, run, emitted, nEmitted, commits, nFailed,
                   startStore, prev, store, dbCall, search>>

\* `for idx in rx { batch.push(idx); if batch.len() >= batch_size`: one record is
\* received and pushed
WriterRecv ==
    /\ wpc = "recv"
    /\ chan # <<>>
    /\ batch' = Append(batch, Head(chan))
    /\ chan' = Tail(chan)
    /\ wpc' = IF Len(batch) + 1 >= batch_size THEN "commit" ELSE "recv"
    /\ UNCHANGED <<fs, batch_size, withMeta, mainpc, result, task, handled, skipped_paths,
                   rxAlive, counter, run, emitted, nEmitted, commits, nFailed,
                   startStore, prev, store, dbCall, search>>

\* a writer that drops the Result of add_idxs and goes on
CommitBatchIgnoreErr(next) ==
    /\ \E failAt \in FailPoints(Len(batch)) :
         LET r == AddIdxs(store, batch, failAt) IN
         /\ store' = r.db
         /\ counter' = counter + Len(batch)
         /\ wpc' = next
         /\ IF r.ok
            THEN /\ commits' = Append(commits, Len(batch))
                 /\ UNCHANGED nFailed
            ELSE /\ nFailed' = nFailed + 1
                 /\ UNCHANGED commits
    /\ batch' = <<>>
    /\ UNCHANGED <<fs, batch_size, withMeta, mainpc, result, task, handled, skipped_paths,
                   run, emitted, nEmitted, startStore, prev, dbCall, search, chan, rxAlive>>

\* a writer that adds the batch to the counter before it knows the commit's outcome
CommitBatchCountFirst(next) ==
    /\ \E failAt \in FailPoints(Len(batch)) :
         LET r == AddIdxs(store, batch, failAt) IN
         /\ store' = r.db
         /\ counter' = counter + Len(batch)
         /\ IF r.ok
            THEN /\ commits' = Append(commits, Len(batch))
                 /\ wpc' = next
                 /\ UNCHANGED <<chan, rxAlive, nFailed>>
            ELSE /\ wpc' = "err"
                 /\ rxAlive' = FALSE
                 /\ chan' = <<>>
                 /\ nFailed' = nFailed + 1
                 /\ UNCHANGED commits
    /\ batch' = <<>>
    /\ UNCHANGED <<fs, batch_size, withMeta, mainpc, result, task, handled, skipped_paths,
                   run, emitted, nEmitted, startStore, prev, dbCall, search>>

\* db.add_idxs(&batch)?, then counter.fetch_add(batch.len()) and, in the loop,
\* batch.clear(). On Err the function returns: rx and what it still holds are dropped.
CommitBatch(next) ==
    /\ \E failAt \in FailPoints(Len(batch)) :
         LET r == AddIdxs(store, batch, failAt) IN
         /\ store' = r.db
         /\ IF r.ok
            THEN /\ counter' = counter + Len(batch)
                 /\ commits' = Append(commits, Len(batch))
                 /\ wpc' = next
                 /\ UNCHANGED <<chan, rxAlive, nFailed>>
            ELSE /\ wpc' = "err"
                 /\ rxAlive' = FALSE
                 /\ chan' = <<>>
                 /\ nFailed' = nFailed + 1
                 /\ UNCHANGED <<counter, commits>>
    /\ batch' = <<>>
    /\ UNCHANGED <<fs, batch_size, withMeta, mainpc, result, task, handled, skipped_paths,
                   run, emitted, nEmitted, startStore, prev, dbCall, search>>

\* the commit of a full batch inside the loop
WriterCommit ==
    /\ wpc = "commit"
    /\ CommitBatch("recv")

\* the loop ends without looking at what is left in batch
WriterClosedNoFlush ==
    /\ wpc = "recv"
    /\ chan = <<>>
    /\ Senders = 0
    /\ wpc' = "ok"
    /\ rxAlive' = FALSE
    /\ UNCHANGED <<fs, batch_size, withMeta, mainpc, result, task, handled, skipped_paths,
                   chan, batch, counter, run, emitted, nEmitted, commits, nFailed,
                   startStore, prev, store, dbCall, search>>

\* the channel is empty and every Sender is dropped: the for loop ends, and
\* `if !batch.is_empty()` decides whether there is a last batch to write
WriterClosed ==
    /\ wpc = "recv"
    /\ chan = <<>>
    /\ Senders = 0
    /\ wpc' = IF batch # <<>> THEN "flush" ELSE "ok"
    /\ rxAlive' = FALSE
    /\ UNCHANGED <<fs, batch_size, withMeta, mainpc, result, task, handled, skipped_paths,
                   chan, batch, counter, run, emitted, nEmitted, commits, nFailed,
                   startStore, prev, store, dbCall, search>>

\* a final write under the loop's condition, batch.len() >= batch_size
WriterFlushFullOnly ==
    /\ wpc = "flush"
    /\ IF Len(batch) >= batch_size
       THEN CommitBatch("ok")
       ELSE /\ wpc' = "ok"
            /\ UNCHANGED <<fs, batch_size, withMeta, mainpc, result, task, handled,
                           skipped_paths, chan, rxAlive, batch, counter, run, emitted,
                           nEmitted, commits, nFailed, startStore, prev, store, dbCall,
                           search>>

\* the commit of the remaining records after the loop
WriterFlush ==
    /\ wpc = "flush"
    /\ CommitBatch("ok")

-----------------------------------------------------------------------------
(* The indexing pipeline *)

Next ==
    \/ \E meta \in BOOLEAN : StartRun(meta)
    \/ \E d \in Scannable : ListDir(d)
    \/ \E d \in Scannable : \E p \in Files : SendFile(d, p)
    \/ \E d \in Scannable : ScanDirs(d)
    \/ \E d \in Scannable : ScanReturn(d)
    \/ WriterRecv
    \/ WriterCommit
    \/ WriterClosed
    \/ WriterFlush
    \/ Return

Spec == Init /\ [][Next]_vars

-----------------------------------------------------------------------------
(* Properties of the indexing pipeline *)

RECURSIVE SumSeq(_)
SumSeq(q) == IF q = <<>> THEN 0 ELSE Head(q) + SumSeq(Tail(q))
InSeq(x, q) == \E i \in 1 .. Len(q) : q[i] = x
Occurrences(x, q) == Cardinality({i \in 1 .. Len(q) : q[i] = x})

\* a directory that can be listed, and the files the walk can find: those whose
\* directory and all its ancestors up to the root can be listed
Listable(d) == KindOf(d) = "dir" /\ d \notin fs.unreadable
FoundFiles == {p \in Files : \A a \in AllPaths : IsPrefix(a, Parent(p)) => Listable(a)}

Returned == mainpc = "returned"
ReturnedOk == mainpc = "returned" /\ result[1].ok

\* C1: when the run returns Ok, the number of records committed equals the number
\* emitted, every emitted record is a row of the store, and every regular file found
\* in a listable directory has a row under its path.
C1_EmittedAreCommitted ==
    ReturnedOk =>
        /\ SumSeq(commits) = nEmitted
        /\ Cardinality(emitted) = nEmitted
        /\ \A r \in emitted : r \in Rows(store)
        /\ \A p \in FoundFiles : \E r \in emitted : r.path = p /\ r \in Rows(store)

\* a run of four files with batch_size 3: one full batch, then the flush of one record
C1_Witness ==
    /\ ReturnedOk
    /\ batch_size = 3
    /\ nEmitted = 4
    /\ commits = <<3, 1>>

\* C2: a directory D whose listing failed is in the skip list, no record under a
\* directory that cannot be listed is ever emitted, and the failure is not fatal: a
\* run whose writer did not fail returns Ok, with D among its skipped paths and with
\* every file of the directories that can be listed in the store.
C2_UnreadableDirSkipped ==
    /\ \A D \in Scannable :
         ~ReadDir(D).ok =>
            /\ \A r \in emitted : ~Under(D, r.path)
            /\ \A i \in 1 .. Len(chan) : ~Under(D, chan[i].path)
            /\ task[D] = "done" => InSeq(D, skipped_paths)
            /\ (task[D] = "done" /\ Returned /\ nFailed = 0) =>
                   /\ result[1].ok
                   /\ InSeq(D, result[1].skipped_paths)
                   /\ \A p \in FoundFiles : \E r \in Rows(store) : r.path = p
                   /\ \A r \in Rows(store) : Under(D, r.path) => r \in Rows(startStore)
    /\ (Returned /\ Exists(Root) /\ nFailed = 0) => result[1].ok

\* r/b cannot be listed: the run returns Ok with r/b skipped, its sibling r/a indexed
\* and nothing below r/b in a store that was empty
C2_Witness ==
    /\ ReturnedOk
    /\ fs.unreadable = {<<"r", "b">>}
    /\ startStore = EmptyStore
    /\ InSeq(<<"r", "b">>, result[1].skipped_paths)
    /\ Paths(store) = {<<"r", "f1">>, <<"r", "a", "f2">>}

\* C3: with a root that does not exist the call returns an error before scanning
\* begins: no writer thread is started, no scan call is made, nothing is sent on the
\* channel and the store is left as it was.
C3_MissingRootFailsFast ==
    fs.root = "absent" =>
        /\ mainpc # "scanning"
        /\ wpc = "idle"
        /\ task = NoTask
        /\ nEmitted = 0 /\ chan = <<>> /\ skipped_paths = <<>>
        /\ store = startStore
        /\ Returned => ~result[1].ok

C3_Witness ==
    /\ fs.root = "absent"
    /\ Returned
    /\ ~result[1].ok
    /\ store = StaleStore

\* C4, in each state: after a failed commit the writer has stopped with an error (so
\* there is exactly one failed commit), the counter is the number of records in the
\* batches that were committed, and the run returns an error.
C4_State ==
    /\ counter = SumSeq(commits)
    /\ nFailed > 0 => (wpc = "err" /\ nFailed = 1)
    /\ (Returned /\ nFailed > 0) => ~result[1].ok

\* C4, in each step: the step in which a commit fails changes neither the store nor
\* the counter, and within the run nothing is committed once the writer has failed.
C4_Step ==
    /\ nFailed' > nFailed => (store' = store /\ counter' = counter)
    /\ (wpc = "err" /\ run' = run) =>
           (wpc' = "err" /\ store' = store /\ counter' = counter /\ commits' = commits)

\* C4: if a batch commit fails the run returns an error, the writer stops at the
\* failed batch, no later batch is committed and the counter is not increased for
\* the failed batch.
C4_CommitFailureAborts == [] C4_State /\ [][C4_Step]_vars

\* the second batch fails after the first was committed, and the run has returned
C4_Witness ==
    /\ Returned
    /\ nFailed = 1
    /\ commits = <<1>>
    /\ counter = 1
    /\ handled = FoundFiles
    /\ ~result[1].ok

\* C5: a run that returns Ok after a run of the same variant that returned Ok (on
\* the same, unchanged tree) leaves the store as that earlier run left it.
C5_Idempotent ==
    (ReturnedOk /\ prev # None /\ prev[1].ok /\ prev[1].meta = withMeta) =>
        store = startStore

C5_Witness ==
    /\ ReturnedOk
    /\ withMeta
    /\ prev # None /\ prev[1].ok /\ prev[1].meta
    /\ nEmitted = 4
    /\ BagCardinality(store) = 5

\* the records a successful run of the current variant puts into an empty store: a
\* function of the tree and the variant, not of batch_size
ExpectedRecords == {Emit(p) : p \in FoundFiles}

\* C6: from an empty store, the store after a successful run is the same for every
\* batch_size: one row per file found, whatever batch_size is.
C6_BatchSizeInvariant ==
    (ReturnedOk /\ startStore = EmptyStore) => store = SetToBag(ExpectedRecords)

\* a batch_size larger than the number of files: everything goes in the final flush
C6_Witness ==
    /\ ReturnedOk
    /\ startStore = EmptyStore
    /\ FoundFiles # {}
    /\ batch_size > Cardinality(FoundFiles)
    /\ commits = <<Cardinality(FoundFiles)>>
    /\ store = SetToBag(ExpectedRecords)

\* C9: in the metadata-bearing scan every record emitted has both mtime and size or
\* neither; a file whose metadata extraction fails is emitted (whenever its send
\* succeeds) with its path and name and without mtime and size, and a file whose
\* extraction succeeds with both; a failed extraction does not make the run fail.
C9_MetadataFallback ==
    withMeta =>
        /\ \A r \in emitted : (r.mtime = None) <=> (r.size = None)
        /\ \A i \in 1 .. Len(chan) : (chan[i].mtime = None) <=> (chan[i].size = None)
        /\ \A p \in handled :
             nFailed = 0 =>
                IF ExtractMetadata(p).ok
                THEN IndexWithMetadata(p, FileName(p), Mtime[p], Size[p]) \in emitted
                ELSE IndexNew(p, FileName(p)) \in emitted
        /\ (Returned /\ Exists(Root) /\ nFailed = 0) => result[1].ok

\* r/a/f2 (fs::metadata fails) and r/b/f3 (modified before the epoch) are in the
\* store without metadata after a run that returned Ok, r/f1 with its metadata
C9_Witness ==
    /\ withMeta
    /\ ReturnedOk
    /\ IndexNew(<<"r", "a", "f2">>, "f2") \in Rows(store)
    /\ IndexNew(<<"r", "b", "f3">>, "f3") \in Rows(store)
    /\ IndexWithMetadata(<<"r", "f1">>, "f1", 100, 5) \in Rows(store)

-----------------------------------------------------------------------------
(* Direct calls of Database::add_idx and Database::add_idxs on one store *)

\* the records the calls are made with: for each of two paths, a record without
\* metadata and a record with another name and with metadata
DbRecords ==
    { IndexNew(path, "n1") : path \in {<<"p1">>, <<"p2">>} }
    \cup { IndexWithMetadata(path, "n2", 1, 10) : path \in {<<"p1">>, <<"p2">>} }
DbBatches == UNION { [1 .. n -> DbRecords] : n \in 0 .. MaxBatchLen }

\* the store after Database::init, with no indexing run in progress
DbInit ==
    /\ fs = [root |-> "dir", unreadable |-> {}]
    /\ store = EmptyStore
    /\ batch_size = 1
    /\ startStore = EmptyStore
    /\ IdxIdle
    /\ dbCall = NoDbCall
    /\ search = NoSearch

\* db.add_idx(&idx): connect or execute may fail
DbAddIdx(idx, fails) ==
    LET r == AddIdx(store, idx, fails) IN
    /\ store' = r.db
    /\ dbCall' = [op |-> "add_idx", idxs |-> <<idx>>, failAt |-> IF fails THEN 1 ELSE 0,
                  before |-> store, ok |-> r.ok]
    /\ UNCHANGED <<idxVars, search>>

\* db.add_idxs(&idxs)
DbAddIdxs(idxs, failAt) ==
    LET r == AddIdxs(store, idxs, failAt) IN
    /\ store' = r.db
    /\ dbCall' = [op |-> "add_idxs", idxs |-> idxs, failAt |-> failAt,
                  before |-> store, ok |-> r.ok]
    /\ UNCHANGED <<idxVars, search>>

DbNext ==
    \/ \E idx \in DbRecords : \E fails \in BOOLEAN : DbAddIdx(idx, fails)
    \/ \E idxs \in DbBatches : \E failAt \in FailPoints(Len(idxs)) : DbAddIdxs(idxs, failAt)

SpecDb == DbInit /\ [][DbNext]_vars

\* record k of idxs is the last one of idxs with its path
LastForPath(idxs, k) == \A j \in (k + 1) .. Len(idxs) : idxs[j].path # idxs[k].path
PathsOf(idxs) == {idxs[k].path : k \in 1 .. Len(idxs)}

\* C7: no two rows of a store hold the same path; after a successful add_idx or
\* add_idxs every path of the call holds exactly the last record written for it
\* (also when the path is repeated inside the batch), the rows of other paths are
\* untouched, and the row count grows only by the number of paths that were new.
C7_PathsUnique ==
    /\ \A r \in Rows(store) : store[r] = 1
    /\ \A r1, r2 \in Rows(store) : r1.path = r2.path => r1 = r2
    /\ (dbCall.op # "none" /\ dbCall.ok) =>
          /\ \A k \in 1 .. Len(dbCall.idxs) :
                LastForPath(dbCall.idxs, k) =>
                    RowsAt(store, dbCall.idxs[k].path) = {dbCall.idxs[k]}
          /\ \A r \in Rows(dbCall.before) :
                r.path \notin PathsOf(dbCall.idxs) => r \in Rows(store)
          /\ BagCardinality(store) =
                BagCardinality(dbCall.before)
                + Cardinality(PathsOf(dbCall.idxs) \ Paths(dbCall.before))

\* a batch that writes p1 twice, over a store that held p1 already: one row for p1,
\* the second record of the batch, and still two rows
C7_Witness ==
    /\ dbCall.op = "add_idxs" /\ dbCall.ok
    /\ dbCall.idxs = <<IndexNew(<<"p1">>, "n1"), IndexWithMetadata(<<"p1">>, "n2", 1, 10)>>
    /\ dbCall.before = SetToBag({IndexNew(<<"p1">>, "n1"), IndexNew(<<"p2">>, "n1")})
    /\ store = SetToBag({IndexWithMetadata(<<"p1">>, "n2", 1, 10), IndexNew(<<"p2">>, "n1")})

\* C8: add_idxs is all-or-nothing. When it returns Ok the record of every path of
\* the batch is in the store (the last one written for that path); when it returns
\* an error the store holds exactly the rows it held before the call.
C8_AllOrNothing ==
    dbCall.op = "add_idxs" =>
        IF dbCall.ok
        THEN \A k \in 1 .. Len(dbCall.idxs) :
                /\ RowsAt(store, dbCall.idxs[k].path) # {}
                /\ LastForPath(dbCall.idxs, k) => dbCall.idxs[k] \in Rows(store)
        ELSE store = dbCall.before

\* the second execute of a batch of two fails after the first wrote a new path: the
\* store is the one before the call
C8_Witness ==
    /\ dbCall.op = "add_idxs" /\ ~dbCall.ok
    /\ Len(dbCall.idxs) = 2
    /\ dbCall.failAt = 3
    /\ dbCall.idxs[1].path \notin Paths(dbCall.before)
    /\ dbCall.before # EmptyStore
    /\ store = dbCall.before

-----------------------------------------------------------------------------
(* searcher.rs: search_by_keyword. Strings are sequences of characters. *)

\* the characters of the model and their code points (ORDER BY path compares bytes)
\* (the full-width semicolon and comma are written by their code points)
Code == ( "\t" :> 9 @@ "\n" :> 10 @@ " " :> 32 @@ "%" :> 37 @@ "," :> 44 @@ "/" :> 47 @@
          ";" :> 59 @@ "A" :> 65 @@ "B" :> 66 @@ "_" :> 95 @@ "a" :> 97 @@ "b" :> 98 @@
          "c" :> 99 @@ "d" :> 100 @@ "U+FF0C" :> 65292 @@ "U+FF1B" :> 65307 )
Chars == DOMAIN Code
\* char::is_whitespace, on these characters
Whitespace == {" ", "\t", "\n"}

\* char::to_lowercase and str::to_lowercase
LowerChar(c) == IF c = "A" THEN "a" ELSE IF c = "B" THEN "b" ELSE c
ToLowercase(str) == [i \in 1 .. Len(str) |-> LowerChar(str[i])]

RECURSIVE TrimStart(_)
TrimStart(str) ==
    IF str # <<>> /\ Head(str) \in Whitespace THEN TrimStart(Tail(str)) ELSE str
RECURSIVE TrimEnd(_)
TrimEnd(str) ==
    IF str # <<>> /\ str[Len(str)] \in Whitespace
    THEN TrimEnd(SubSeq(str, 1, Len(str) - 1)) ELSE str

\* a trim that removes nothing
TrimNothing(str) == str

\* str::trim
Trim(str) == TrimEnd(TrimStart(str))

\* str::contains(&str)
Contains(text, sub) ==
    \E i \in 0 .. (Len(text) - Len(sub)) : SubSeq(text, i + 1, i + Len(sub)) = sub

\* SQLite's LIKE with its defaults: % matches any run of characters, _ any one
\* character, and ASCII letters match regardless of case
RECURSIVE LikeMatch(_, _)
LikeMatch(pat, text) ==
    IF pat = <<>> THEN text = <<>>
    ELSE IF Head(pat) = "%"
         THEN LikeMatch(Tail(pat), text) \/ (text # <<>> /\ LikeMatch(pat, Tail(text)))
         ELSE /\ text # <<>>
              /\ Head(pat) = "_" \/ LowerChar(Head(pat)) = LowerChar(Head(text))
              /\ LikeMatch(Tail(pat), Tail(text))

\* byte-wise comparison of two strings (the BINARY collation of ORDER BY path)
RECURSIVE StrLess(_, _)
StrLess(x, y) ==
    IF y = <<>> THEN FALSE
    ELSE IF x = <<>> THEN TRUE
    ELSE IF Head(x) = Head(y) THEN StrLess(Tail(x), Tail(y))
    ELSE Code[Head(x)] < Code[Head(y)]

\* the rows of a set in ascending order of path
RECURSIVE OrderByPath(_)
OrderByPath(rows) ==
    IF rows = {} THEN <<>>
    ELSE LET first == CHOOSE r \in rows : \A o \in rows : o = r \/ ~StrLess(o.path, r.path)
         IN <<first>> \o OrderByPath(rows \ {first})

\* a query without its LIMIT clause
LimitOff(q, n) == q

\* LIMIT n
Limit(q, n) == SubSeq(q, 1, IF Len(q) < n THEN Len(q) ELSE n)

\* the SELECT of search_by_keyword: like_pattern is "%{keyword}%",
\* WHERE name LIKE ?1 [OR path LIKE ?1] ORDER BY path LIMIT max_results
Query(db, keyword, config) ==
    LET like_pattern == <<"%">> \o keyword \o <<"%">>
        matching == {r \in Rows(db) :
                        \/ LikeMatch(like_pattern, r.name)
                        \/ config.search_in_path /\ LikeMatch(like_pattern, r.path)}
        rows == Limit(OrderByPath(matching), config.max_results)
    IN [i \in 1 .. Len(rows) |-> [path |-> rows[i].path, name |-> rows[i].name]]

\* a filter closure that keeps a result containing any one include filter
PassesFiltersAnyInclude(res, config) ==
    LET text == res.path \o <<" ">> \o res.name
        full_text == IF config.case_sensitive THEN text ELSE ToLowercase(text)
        FilterText(f) == IF config.case_sensitive THEN f ELSE ToLowercase(f)
        includes_match ==
            \/ config.include_filters = <<>>
            \/ \E i \in 1 .. Len(config.include_filters) :
                  Contains(full_text, FilterText(config.include_filters[i]))
        excludes_match ==
            \E i \in 1 .. Len(config.exclude_filters) :
                Contains(full_text, FilterText(config.exclude_filters[i]))
    IN includes_match /\ ~excludes_match

\* the closure of apply_filters: does a result pass the filters
PassesFilters(res, config) ==
    LET text == res.path \o <<" ">> \o res.name
        full_text == IF config.case_sensitive THEN text ELSE ToLowercase(text)
        FilterText(f) == IF config.case_sensitive THEN f ELSE ToLowercase(f)
        includes_match ==
            \A i \in 1 .. Len(config.include_filters) :
                Contains(full_text, FilterText(config.include_filters[i]))
        excludes_match ==
            \E i \in 1 .. Len(config.exclude_filters) :
                Contains(full_text, FilterText(config.exclude_filters[i]))
    IN includes_match /\ ~excludes_match

RECURSIVE FilterSeq(_, _)
FilterSeq(q, config) ==
    IF q = <<>> THEN <<>>
    ELSE (IF PassesFilters(Head(q), config) THEN <<Head(q)>> ELSE <<>>)
         \o FilterSeq(Tail(q), config)

\* apply_filters
ApplyFilters(results, config) ==
    IF config.include_filters = <<>> /\ config.exclude_filters = <<>> THEN results
    ELSE FilterSeq(results, config)

\* a search that filters every selected row and caps afterwards
SearchByKeywordFilterFirst(db, keyword, config, dbFails) ==
    IF Trim(keyword) = <<>>
    THEN [issued |-> FALSE, ok |-> TRUE, results |-> <<>>]
    ELSE IF dbFails
         THEN [issued |-> TRUE, ok |-> FALSE, results |-> <<>>]
         ELSE [issued |-> TRUE, ok |-> TRUE,
               results |->
                 Limit(ApplyFilters(Query(db, keyword,
                                          [config EXCEPT !.max_results = BagCardinality(db)]),
                                    config),
                       config.max_results)]

\* search_by_keyword(db, keyword, config); dbFails: batch_operation's connect, or
\* the prepare or a step of the query, returns Err
SearchByKeywordResult(db, keyword, config, dbFails) ==
    IF Trim(keyword) = <<>>
    THEN [issued |-> FALSE, ok |-> TRUE, results |-> <<>>]
    ELSE IF dbFails
         THEN [issued |-> TRUE, ok |-> FALSE, results |-> <<>>]
         ELSE [issued |-> TRUE, ok |-> TRUE,
               results |-> ApplyFilters(Query(db, keyword, config), config)]

\* the delimiters of parse_search_keywords: ; full-width ; space , full-width , tab
Delimiters == {";", "U+FF1B", " ", ",", "U+FF0C", "\t"}

\* str::split on a set of characters: the pieces between delimiters, empty ones
\* included
RECURSIVE Split(_, _)
Split(str, delims) ==
    IF \A i \in 1 .. Len(str) : str[i] \notin delims THEN <<str>>
    ELSE LET at == CHOOSE i \in 1 .. Len(str) :
                       str[i] \in delims /\ \A j \in 1 .. (i - 1) : str[j] \notin delims
         IN <<SubSeq(str, 1, at - 1)>> \o Split(SubSeq(str, at + 1, Len(str)), delims)

NonEmpty(str) == str # <<>>

\* a parse that knows the half-width delimiters only
ParseHalfWidth(input) ==
    LET pieces == Split(input, Delimiters \ {"U+FF1B", "U+FF0C"})
    IN SelectSeq([i \in 1 .. Len(pieces) |-> Trim(pieces[i])], NonEmpty)

\* parse_search_keywords
ParseSearchKeywords(input) ==
    LET pieces == Split(input, Delimiters)
    IN SelectSeq([i \in 1 .. Len(pieces) |-> Trim(pieces[i])], NonEmpty)

\* the store that is searched
SearchStore ==
    SetToBag({ [path |-> <<"/", "d", "/", "a", "b">>, name |-> <<"a", "b">>,
                mtime |-> None, size |-> None],
               [path |-> <<"/", "d", "/", "A", "B">>, name |-> <<"A", "B">>,
                mtime |-> None, size |-> None],
               [path |-> <<"/", "a", "b", "/", "c">>, name |-> <<"c">>,
                mtime |-> None, size |-> None],
               [path |-> <<"/", "b", " ", "a">>, name |-> <<"b", " ", "a">>,
                mtime |-> None, size |-> None] })

KeywordChars == {"a", "b", "A", "c", " ", "\t", "%", "_"}
Keywords == UNION { [1 .. n -> KeywordChars] : n \in 0 .. MaxKeywordLen }
SearchConfigs ==
    [ max_results : 0 .. MaxLimit,
      search_in_path : BOOLEAN,
      case_sensitive : BOOLEAN,
      include_filters : {<<>>, <<<<"b">>>>, <<<<"a">>, <<"B">>>>, <<<<"c", " ", "c">>>>},
      exclude_filters : {<<>>, <<<<"A">>>>} ]

\* a caller about to call search_by_keyword on the store
SearchInit ==
    /\ fs = [root |-> "dir", unreadable |-> {}]
    /\ store = SearchStore
    /\ batch_size = 1
    /\ startStore = SearchStore
    /\ IdxIdle
    /\ dbCall = NoDbCall
    /\ \E keyword \in Keywords : \E config \in SearchConfigs : \E dbFails \in BOOLEAN :
         search = [pc |-> "call", keyword |-> keyword, config |-> config,
                   dbFails |-> dbFails, issued |-> FALSE, ok |-> TRUE, results |-> <<>>]

\* the call of search_by_keyword
SearchByKeyword ==
    /\ search.pc = "call"
    /\ LET r == SearchByKeywordResult(store, search.keyword, search.config, search.dbFails)
       IN search' = [search EXCEPT !.pc = "done", !.issued = r.issued, !.ok = r.ok,
                                   !.results = r.results]
    /\ UNCHANGED <<idxVars, store, dbCall>>

SearchNext == SearchByKeyword

SpecSearch == SearchInit /\ [][SearchNext]_vars

\* an empty or whitespace-only string
IsBlank(str) == \A i \in 1 .. Len(str) : str[i] \in Whitespace

\* C10: search_by_keyword with an empty or whitespace-only keyword returns an
\* empty result (Ok, also when the store cannot be queried) and issues no query;
\* any other keyword does issue one.
C10_BlankKeywordNoQuery ==
    search.pc = "done" =>
        IF IsBlank(search.keyword)
        THEN ~search.issued /\ search.ok /\ search.results = <<>>
        ELSE search.issued

\* a keyword of a space and a tab, on a store whose query would fail
C10_Witness ==
    /\ search.pc = "done"
    /\ search.keyword = <<" ", "\t">>
    /\ search.dbFails
    /\ ~search.issued /\ search.ok /\ search.results = <<>>

\* the (path, name) pairs of the rows the query's WHERE clause selects
Selected(keyword, config) ==
    {[path |-> r.path, name |-> r.name] : r \in
        {r \in Rows(store) :
            \/ LikeMatch(<<"%">> \o keyword \o <<"%">>, r.name)
            \/ config.search_in_path /\ LikeMatch(<<"%">> \o keyword \o <<"%">>, r.path)}}
NoFilters(config) == config.include_filters = <<>> /\ config.exclude_filters = <<>>
Min(a, b) == IF a < b THEN a ELSE b
Answered == search.pc = "done" /\ search.issued /\ search.ok

\* C11: search_by_keyword returns at most max_results results in ascending order
\* of path; without filters they are the max_results selected records of least
\* path (all of them when there are fewer).
C11_CappedAscendingFirst ==
    Answered =>
        LET res == search.results
            sel == Selected(search.keyword, search.config)
        IN /\ Len(res) <= search.config.max_results
           /\ \A i, j \in 1 .. Len(res) : i < j => StrLess(res[i].path, res[j].path)
           /\ NoFilters(search.config) =>
                 /\ Len(res) = Min(Cardinality(sel), search.config.max_results)
                 /\ \A i \in 1 .. Len(res) : res[i] \in sel
                 /\ \A m \in sel : InSeq(m, res) \/
                        \A i \in 1 .. Len(res) : StrLess(res[i].path, m.path)

\* keyword "b" selects all four records and max_results = 2 keeps the two of
\* least path
C11_Witness ==
    /\ Answered
    /\ search.keyword = <<"b">>
    /\ search.config.search_in_path /\ NoFilters(search.config)
    /\ search.config.max_results = 2
    /\ Cardinality(Selected(search.keyword, search.config)) = 4
    /\ search.results = << [path |-> <<"/", "a", "b", "/", "c">>, name |-> <<"c">>],
                           [path |-> <<"/", "b", " ", "a">>, name |-> <<"b", " ", "a">>] >>

\* the characters LIKE treats as wildcards
Wildcards == {"%", "_"}
Literal(keyword) == \A i \in 1 .. Len(keyword) : keyword[i] \notin Wildcards
\* the text of a record the keyword is looked for in
InNameOrPath(r, sub, config) ==
    Contains(r.name, sub) \/ (config.search_in_path /\ Contains(r.path, sub))
InNameOrPathAnyCase(r, sub, config) ==
    \/ Contains(ToLowercase(r.name), ToLowercase(sub))
    \/ config.search_in_path /\ Contains(ToLowercase(r.path), ToLowercase(sub))

\* C12: search_by_keyword honours case_sensitive when matching the keyword: with
\* case_sensitive = false a record matches whatever its letter case (so, with no
\* filter and the cap not reached, it is returned), and with case_sensitive = true
\* every returned record contains the keyword with exactly the same letter case in
\* its name, or in its path when search_in_path is true. Stated for keywords
\* without LIKE wildcards, so that only letter case is in question.
C12_HonoursCaseSensitive ==
    (Answered /\ Literal(search.keyword)) =>
        LET res == search.results
            config == search.config
        IN IF config.case_sensitive
           THEN \A i \in 1 .. Len(res) : InNameOrPath(res[i], search.keyword, config)
           ELSE (NoFilters(config) /\ Len(res) < config.max_results) =>
                    \A r \in Rows(store) :
                        InNameOrPathAnyCase(r, search.keyword, config) =>
                            InSeq([path |-> r.path, name |-> r.name], res)

\* C13: search_by_keyword matches the keyword as a literal substring, for every
\* keyword: every returned record has the keyword's characters contiguously in its
\* name, or in its path when search_in_path is true (letter case aside, which is
\* C12's subject); so with search_in_path = false a record that has the keyword in
\* its path only is not returned.
C13_LiteralSubstring ==
    Answered =>
        \A i \in 1 .. Len(search.results) :
            InNameOrPathAnyCase(search.results[i], search.keyword, search.config)

\* the capped window of the query, before the filters
Window == Query(store, search.keyword, search.config)
\* the text of a record the filters are looked for in, and the folding of case
FilterTextOf(r) == r.path \o <<" ">> \o r.name
Fold(str, config) == IF config.case_sensitive THEN str ELSE ToLowercase(str)
SeqSet(q) == {q[i] : i \in 1 .. Len(q)}
Kept(r, config) ==
    /\ \A f \in SeqSet(config.include_filters) :
           Contains(Fold(FilterTextOf(r), config), Fold(f, config))
    /\ \A f \in SeqSet(config.exclude_filters) :
           ~Contains(Fold(FilterTextOf(r), config), Fold(f, config))

\* C14: with filters set, a record of the capped window is returned if and only
\* if the text of its path and name contains every include filter and no exclude
\* filter, letter case folded unless case_sensitive; with both filter lists empty
\* the window is returned unchanged.
C14_FiltersIncludeAllExcludeAny ==
    Answered =>
        IF NoFilters(search.config)
        THEN search.results = Window
        ELSE /\ SeqSet(search.results) \subseteq SeqSet(Window)
             /\ \A r \in SeqSet(Window) :
                    InSeq(r, search.results) <=> Kept(r, search.config)

\* of the window /ab/c, /d/AB the second has no "b" and has an "A"
C14_Witness ==
    /\ Answered
    /\ search.keyword = <<"a", "b">>
    /\ search.config.case_sensitive
    /\ search.config.include_filters = << <<"b">> >>
    /\ search.config.exclude_filters = << <<"A">> >>
    /\ Len(Window) = 2
    /\ search.results = << [path |-> <<"/", "a", "b", "/", "c">>, name |-> <<"c">>] >>

RECURSIVE IsSubsequence(_, _)
IsSubsequence(q, of) ==
    IF q = <<>> THEN TRUE
    ELSE IF of = <<>> THEN FALSE
    ELSE IF Head(q) = Head(of) THEN IsSubsequence(Tail(q), Tail(of))
    ELSE IsSubsequence(q, Tail(of))
\* the configuration with its filters taken away
Unfiltered(config) == [config EXCEPT !.include_filters = <<>>, !.exclude_filters = <<>>]
\* how many selected records precede r in path order
Rank(r) ==
    Cardinality({m \in Selected(search.keyword, search.config) : StrLess(m.path, r.path)})

\* C15: filters act on the window already capped at max_results: the answer is an
\* order-preserving subsequence of the answer of the same search without filters,
\* and no record preceded by max_results or more selected records in path order is
\* returned, also when fewer than max_results records are left.
C15_FilterAfterCap ==
    Answered =>
        /\ IsSubsequence(search.results,
                         SearchByKeywordResult(store, search.keyword,
                                               Unfiltered(search.config), FALSE).results)
        /\ \A i \in 1 .. Len(search.results) :
               Rank(search.results[i]) < search.config.max_results

\* keyword "a" in names, max_results = 2: the window is /b a, /d/AB; the filters
\* drop /d/AB, and /d/ab, which passes them, lies beyond the window
C15_Witness ==
    /\ Answered
    /\ search.keyword = <<"a">>
    /\ ~search.config.search_in_path /\ search.config.case_sensitive
    /\ search.config.max_results = 2
    /\ search.config.include_filters = << <<"b">> >>
    /\ search.config.exclude_filters = << <<"A">> >>
    /\ Len(search.results) = 1
    /\ \E m \in Selected(search.keyword, search.config) :
          /\ Kept(m, search.config)
          /\ Rank(m) >= search.config.max_results
          /\ ~InSeq(m, search.results)

-----------------------------------------------------------------------------
(* searcher.rs: parse_search_keywords *)

InputChars == {"a", "b", "\n"} \cup Delimiters
Inputs == UNION { [1 .. n -> InputChars] : n \in 0 .. MaxInputLen }

\* a caller about to parse a raw input
ParseInit ==
    /\ fs = [root |-> "dir", unreadable |-> {}]
    /\ store = SearchStore
    /\ batch_size = 1
    /\ startStore = SearchStore
    /\ IdxIdle
    /\ dbCall = NoDbCall
    /\ \E input \in Inputs : search = [pc |-> "call", input |-> input, keywords |-> <<>>]

\* the call of parse_search_keywords
Parse ==
    /\ search.pc = "call"
    /\ search' = [search EXCEPT !.pc = "done", !.keywords = ParseSearchKeywords(search.input)]
    /\ UNCHANGED <<idxVars, store, dbCall>>

ParseNext == Parse

SpecParse == ParseInit /\ [][ParseNext]_vars

\* the maximal runs of non-delimiter characters of an input, as <<first, last>>
Runs(input) ==
    {span \in (1 .. Len(input)) \X (1 .. Len(input)) :
        /\ span[1] <= span[2]
        /\ \A i \in span[1] .. span[2] : input[i] \notin Delimiters
        /\ span[1] = 1 \/ input[span[1] - 1] \in Delimiters
        /\ span[2] = Len(input) \/ input[span[2] + 1] \in Delimiters}
\* those that are not whitespace only
WordRuns(input) == {span \in Runs(input) : ~IsBlank(SubSeq(input, span[1], span[2]))}
\* the input with every delimiter replaced by d, and with every delimiter doubled
WithDelimiter(input, d) ==
    [i \in 1 .. Len(input) |-> IF input[i] \in Delimiters THEN d ELSE input[i]]
RECURSIVE DoubleDelimiters(_)
DoubleDelimiters(input) ==
    IF input = <<>> THEN <<>>
    ELSE (IF Head(input) \in Delimiters THEN <<Head(input), ";">> ELSE <<Head(input)>>)
         \o DoubleDelimiters(Tail(input))

\* C16: parse_search_keywords returns the pieces between delimiters, trimmed, that
\* are not empty, in input order: no keyword is empty or holds a delimiter, the
\* result does not depend on which delimiters separate the keywords or on how many,
\* and an empty or delimiter-only input gives the empty sequence.
C16_ParseKeywords ==
    search.pc = "done" =>
        LET input == search.input
            keywords == search.keywords
        IN /\ \A k \in 1 .. Len(keywords) :
                 /\ keywords[k] # <<>>
                 /\ \A i \in 1 .. Len(keywords[k]) : keywords[k][i] \notin Delimiters
           /\ Len(keywords) = Cardinality(WordRuns(input))
           /\ \A span \in WordRuns(input) :
                 keywords[1 + Cardinality({o \in WordRuns(input) : o[1] < span[1]})]
                     = Trim(SubSeq(input, span[1], span[2]))
           /\ \A d \in Delimiters : ParseSearchKeywords(WithDelimiter(input, d)) = keywords
           /\ ParseSearchKeywords(DoubleDelimiters(input)) = keywords
           /\ (\A i \in 1 .. Len(input) : input[i] \in Delimiters) => keywords = <<>>

\* "a" and "b" between a comma, a full-width semicolon and a space
C16_Witness ==
    /\ search.pc = "done"
    /\ search.input = <<",", "a", "U+FF1B", "b">>
    /\ search.keywords = << <<"a">>, <<"b">> >>

-----------------------------------------------------------------------------
(* searcher.rs: search_multiple_keywords, search_from_input,
   search_multiple_databases, search_in_selected_database; web.rs: search_handler *)

\* database files: a directory and a file name (None when the path has none)
DbPath(dir, file) == [dir |-> dir, file |-> file]
PathXab == DbPath("x", Some(<<"a", "b">>))
PathYab == DbPath("y", Some(<<"a", "b">>))
PathXAB == DbPath("x", Some(<<"A", "B">>))
PathXall == DbPath("x", Some(<<"a", "l", "l">>))
PathXdotdot == DbPath("x", None)

\* the rows of the file at a path: x/ab is the store, the others hold a part of it
StoreAt(p) ==
    IF p = PathXab THEN store
    ELSE IF p = PathYab
         THEN SetToBag({r \in Rows(SearchStore) : r.name = <<"c">>})
    ELSE IF p = PathXAB
         THEN SetToBag({r \in Rows(SearchStore) : r.name # <<"c">>})
    ELSE EmptyBag

Ok(v) == [ok |-> TRUE, value |-> v, error |-> None]
Err(e) == [ok |-> FALSE, value |-> <<>>, error |-> Some(e)]
NoOut == [ok |-> TRUE, value |-> <<>>, error |-> None]

\* the selector that stands for every database, and the name of a path without
\* a file name
All == <<"a", "l", "l">>
Unknown == <<"u", "n", "k", "n", "o", "w", "n">>
\* file_name().and_then(to_str).unwrap_or("unknown")
DbNameOf(p) == IF p.file = None THEN Unknown ELSE p.file[1]

\* a comparison of names that ignores letter case
NameIsIgnoreCase(p, db_name) ==
    p.file # None /\ ToLowercase(p.file[1]) = ToLowercase(db_name)

\* the closure of find: file_name().and_then(to_str).map(|n| n == db_name)
\* .unwrap_or(false)
NameIs(p, db_name) == p.file # None /\ p.file[1] = db_name

\* the database lists, selectors, keyword lists and configurations callers pass
DbPathLists ==
    { <<>>, <<PathXab>>, <<PathXab, PathXAB>>, <<PathXAB, PathXab>>, <<PathYab, PathXab>>,
      <<PathXall, PathXab>>, <<PathXdotdot, PathXAB>>, <<PathXab, PathYab, PathXAB>> }
Selectors == {All, <<"a", "b">>, <<"a">>, <<"A", "B">>, <<"a", "b", "c">>, Unknown}
KeywordLists ==
    { <<>>, << <<"a">> >>, << <<"a">>, <<"c">> >>, << <<"c">>, <<"a">> >>,
      << <<"a">>, <<"a">> >>, << <<" ">>, <<"a">> >>,
      << <<"a", "b">>, <<"_">>, <<"a", "b">> >> }
MultiConfigs ==
    { [max_results |-> MaxLimit, search_in_path |-> TRUE, case_sensitive |-> FALSE,
       include_filters |-> <<>>, exclude_filters |-> <<>>],
      [max_results |-> 1, search_in_path |-> FALSE, case_sensitive |-> FALSE,
       include_filters |-> << <<"b">> >>, exclude_filters |-> <<>>] }
MultiInputs == UNION { [1 .. n -> {"a", "c", ";", " "}] : n \in 0 .. MaxInputLen }

\* the limit of a request that names none
DefaultMaxResults == 2000
\* parse_filter_keywords: split on , and ; (half and full width), trim, drop empties
ParseFilterKeywords(input) ==
    LET pieces == Split(input, {",", "U+FF0C", ";", "U+FF1B"})
    IN SelectSeq([i \in 1 .. Len(pieces) |-> Trim(pieces[i])], NonEmpty)

\* the requests the web client sends (without root_path) and the server's databases
SearchRequests ==
    [ query : { <<>>, <<"a">>, <<"a", " ", "c">>, <<"a", ";", "a">> },
      selected_db : {All, <<"a", "b">>, <<"a">>},
      limit : {None, Some(1)},
      name_only : BOOLEAN,
      case_sensitive : {FALSE},
      root_path : {None},
      include_filters : {None, Some(<<"b", ",">>)},
      exclude_filters : {None} ]
NoParams == [query |-> <<>>]
NoResponse == [success |-> TRUE, results |-> <<>>, error |-> None]

\* a call of function fn that has not started
Call(fn, input, db_paths, db_name, keywords, config) ==
    [pc |-> fn, fn |-> fn, input |-> input, db_paths |-> db_paths, db_name |-> db_name,
     keywords |-> keywords, config |-> config, at |-> 1, found |-> 0,
     all_results |-> <<>>, queries |-> <<>>, failed |-> FALSE, out |-> NoOut,
     caller |-> "none", params |-> NoParams, response |-> NoResponse]

MultiCalls ==
    {Call("search_from_input", input, <<PathXab>>, <<>>, <<>>, config) :
        input \in MultiInputs, config \in MultiConfigs}
    \cup
    {Call("search_multiple_keywords", <<>>, <<PathXab>>, <<>>, keywords, config) :
        keywords \in KeywordLists, config \in MultiConfigs}
    \cup
    {Call("search_in_selected_database", <<>>, db_paths, db_name, keywords, config) :
        db_paths \in DbPathLists, db_name \in Selectors,
        keywords \in KeywordLists, config \in MultiConfigs}
    \cup
    {[Call("search_handler", <<>>, db_paths, <<>>, <<>>, CHOOSE c \in MultiConfigs : TRUE)
        EXCEPT !.params = params] :
        db_paths \in DbPathLists, params \in SearchRequests}

MultiInit ==
    /\ fs = [root |-> "dir", unreadable |-> {}]
    /\ store = SearchStore
    /\ batch_size = 1
    /\ startStore = SearchStore
    /\ IdxIdle
    /\ dbCall = NoDbCall
    /\ search \in MultiCalls

\* search_from_input: parse, return at once when there is no keyword, else call
\* search_multiple_keywords
SearchFromInput ==
    /\ search.pc = "search_from_input"
    /\ LET keywords == ParseSearchKeywords(search.input)
       IN IF keywords = <<>>
          THEN search' = [search EXCEPT !.pc = "returned", !.out = Ok(<<>>)]
          ELSE search' = [search EXCEPT !.pc = "search_multiple_keywords",
                                        !.keywords = keywords]
    /\ UNCHANGED <<idxVars, store, dbCall>>

\* one turn of the loop of search_multiple_keywords that drops a keyword already
\* searched
SearchMultipleKeywordsStepOnce(fails) ==
    /\ search.pc = "search_multiple_keywords"
    /\ search.at <= Len(search.keywords)
    /\ LET keyword == search.keywords[search.at]
           r == SearchByKeywordResult(store, keyword, search.config, fails)
           seen == \E j \in 1 .. (search.at - 1) : search.keywords[j] = keyword
       IN search' =
            IF seen THEN [search EXCEPT !.at = @ + 1]
            ELSE IF r.ok
            THEN [search EXCEPT !.at = @ + 1,
                                !.all_results = Append(@, <<keyword, r.results>>),
                                !.queries = IF r.issued THEN Append(@, <<1, keyword>>) ELSE @]
            ELSE [search EXCEPT !.pc = "returned", !.out = Err("query"), !.failed = TRUE,
                                !.queries = Append(@, <<1, keyword>>)]
    /\ UNCHANGED <<idxVars, store, dbCall>>

\* one turn of the loop of search_multiple_keywords: search_by_keyword(..)? and push
SearchMultipleKeywordsStep(fails) ==
    /\ search.pc = "search_multiple_keywords"
    /\ search.at <= Len(search.keywords)
    /\ LET keyword == search.keywords[search.at]
           r == SearchByKeywordResult(store, keyword, search.config, fails)
       IN search' =
            IF r.ok
            THEN [search EXCEPT !.at = @ + 1,
                                !.all_results = Append(@, <<keyword, r.results>>),
                                !.queries = IF r.issued THEN Append(@, <<1, keyword>>) ELSE @]
            ELSE [search EXCEPT !.pc = "returned", !.out = Err("query"), !.failed = TRUE,
                                !.queries = Append(@, <<1, keyword>>)]
    /\ UNCHANGED <<idxVars, store, dbCall>>

\* the loop of search_multiple_keywords is over: Ok(all_results)
SearchMultipleKeywordsReturn ==
    /\ search.pc = "search_multiple_keywords"
    /\ search.at > Len(search.keywords)
    /\ search' = [search EXCEPT !.pc = "returned", !.out = Ok(search.all_results)]
    /\ UNCHANGED <<idxVars, store, dbCall>>

\* search_in_selected_database up to its loop: "all" goes to
\* search_multiple_databases, any other selector to the first path of that file
\* name, or to the not-found error
SearchInSelectedDatabase ==
    /\ search.pc = "search_in_selected_database"
    /\ LET hits == {i \in 1 .. Len(search.db_paths) : NameIs(search.db_paths[i], search.db_name)}
       IN search' =
            IF search.db_name = All
            THEN [search EXCEPT !.pc = "search_multiple_databases"]
            ELSE IF hits = {}
            THEN [search EXCEPT !.pc = "returned", !.out = Err("not found")]
            ELSE [search EXCEPT !.pc = "selected",
                                !.found = CHOOSE i \in hits : \A j \in hits : i <= j]
    /\ UNCHANGED <<idxVars, store, dbCall>>

\* the (database, keyword) pair of the n-th turn of the nested loops of
\* search_multiple_databases: databases outside, keywords inside
PairAt(n, keywords) ==
    [db |-> ((n - 1) \div Len(keywords)) + 1, kw |-> ((n - 1) % Len(keywords)) + 1]
\* the same with keywords outside and databases inside
PairAtKeywordMajor(n, db_paths) ==
    [db |-> ((n - 1) % Len(db_paths)) + 1, kw |-> ((n - 1) \div Len(db_paths)) + 1]

\* a turn that leaves a failed query out and goes on
TurnSkipFailed(d, k, name, fails) ==
    LET keyword == search.keywords[k]
        r == SearchByKeywordResult(StoreAt(search.db_paths[d]), keyword, search.config, fails)
    IN IF r.ok
       THEN [search EXCEPT !.at = @ + 1,
                           !.all_results = Append(@, <<name, keyword, r.results>>),
                           !.queries = IF r.issued THEN Append(@, <<d, keyword>>) ELSE @]
       ELSE [search EXCEPT !.at = @ + 1, !.failed = TRUE,
                           !.queries = Append(@, <<d, keyword>>)]

\* what a turn on database d and keyword number k, labelled name, does to the call
Turn(d, k, name, fails) ==
    LET keyword == search.keywords[k]
        r == SearchByKeywordResult(StoreAt(search.db_paths[d]), keyword, search.config, fails)
    IN IF r.ok
       THEN [search EXCEPT !.at = @ + 1,
                           !.all_results = Append(@, <<name, keyword, r.results>>),
                           !.queries = IF r.issued THEN Append(@, <<d, keyword>>) ELSE @]
       ELSE [search EXCEPT !.pc = "returned", !.out = Err("query"), !.failed = TRUE,
                           !.queries = Append(@, <<d, keyword>>)]

\* a turn of search_multiple_databases that walks keywords outside, databases inside
SearchMultipleDatabasesStepKeywordMajor(fails) ==
    /\ search.pc = "search_multiple_databases"
    /\ search.at <= Len(search.db_paths) * Len(search.keywords)
    /\ LET pair == PairAtKeywordMajor(search.at, search.db_paths)
       IN search' = Turn(pair.db, pair.kw, DbNameOf(search.db_paths[pair.db]), fails)
    /\ UNCHANGED <<idxVars, store, dbCall>>

\* one turn of the inner loop of search_multiple_databases
SearchMultipleDatabasesStep(fails) ==
    /\ search.pc = "search_multiple_databases"
    /\ search.at <= Len(search.db_paths) * Len(search.keywords)
    /\ LET pair == PairAt(search.at, search.keywords)
       IN search' = Turn(pair.db, pair.kw, DbNameOf(search.db_paths[pair.db]), fails)
    /\ UNCHANGED <<idxVars, store, dbCall>>

\* both loops of search_multiple_databases are over: Ok(all_results)
SearchMultipleDatabasesReturn ==
    /\ search.pc = "search_multiple_databases"
    /\ search.at > Len(search.db_paths) * Len(search.keywords)
    /\ search' = [search EXCEPT !.pc = "returned", !.out = Ok(search.all_results)]
    /\ UNCHANGED <<idxVars, store, dbCall>>

\* one turn of the loop of search_in_selected_database, on the database found
SearchSelectedStep(fails) ==
    /\ search.pc = "selected"
    /\ search.at <= Len(search.keywords)
    /\ search' = Turn(search.found, search.at, search.db_name, fails)
    /\ UNCHANGED <<idxVars, store, dbCall>>

\* the loop of search_in_selected_database is over: Ok(results)
SearchSelectedReturn ==
    /\ search.pc = "selected"
    /\ search.at > Len(search.keywords)
    /\ search' = [search EXCEPT !.pc = "returned", !.out = Ok(search.all_results)]
    /\ UNCHANGED <<idxVars, store, dbCall>>

\* search_handler up to its call of search_in_selected_database: the
\* configuration and the keywords come from the request
SearchHandler ==
    /\ search.pc = "search_handler"
    /\ LET params == search.params
           Filters(opt) == IF opt = None THEN <<>> ELSE ParseFilterKeywords(opt[1])
       IN search' =
            [search EXCEPT
               !.pc = "search_in_selected_database",
               !.fn = "search_in_selected_database",
               !.caller = "search_handler",
               !.config = [max_results |-> IF params.limit = None THEN DefaultMaxResults
                                           ELSE params.limit[1],
                           search_in_path |-> ~params.name_only,
                           case_sensitive |-> params.case_sensitive,
                           include_filters |-> Filters(params.include_filters),
                           exclude_filters |-> Filters(params.exclude_filters)],
               !.keywords = ParseSearchKeywords(params.query),
               !.db_name = params.selected_db]
    /\ UNCHANGED <<idxVars, store, dbCall>>

\* the items of the tuples of one keyword, databases merged in tuple order
RECURSIVE ItemsOf(_, _)
ItemsOf(tuples, keyword) ==
    IF tuples = <<>> THEN <<>>
    ELSE (IF Head(tuples)[2] = keyword THEN Head(tuples)[3] ELSE <<>>)
         \o ItemsOf(Tail(tuples), keyword)
\* the orders a HashMap may hand its keys out in
Orders(S) == {q \in [1 .. Cardinality(S) -> S] : \A i, j \in DOMAIN q : q[i] = q[j] => i = j}

\* search_handler after the call: the failure response on Err; on Ok one entry
\* per distinct keyword, in the map's order, with its count (the entry's tree is
\* built from these items and stands here as the items)
SearchHandlerRespond ==
    /\ search.pc = "returned"
    /\ search.caller = "search_handler"
    /\ IF ~search.out.ok
       THEN search' = [search EXCEPT !.pc = "responded",
                          !.response = [success |-> FALSE, results |-> <<>>,
                                        error |-> Some(<<"Search failed", search.out.error[1]>>)]]
       ELSE \E order \in Orders({t[2] : t \in {search.out.value[i] : i \in 1 .. Len(search.out.value)}}) :
               search' = [search EXCEPT !.pc = "responded",
                  !.response =
                     [success |-> TRUE,
                      results |-> [i \in 1 .. Len(order) |->
                                     [keyword |-> order[i],
                                      count |-> Len(ItemsOf(search.out.value, order[i])),
                                      items |-> ItemsOf(search.out.value, order[i])]],
                      error |-> None]]
    /\ UNCHANGED <<idxVars, store, dbCall>>

MultiNext ==
    \/ SearchHandler
    \/ SearchHandlerRespond
    \/ SearchFromInput
    \/ \E fails \in BOOLEAN : SearchMultipleKeywordsStep(fails)
    \/ SearchMultipleKeywordsReturn
    \/ SearchInSelectedDatabase
    \/ \E fails \in BOOLEAN : SearchMultipleDatabasesStep(fails)
    \/ SearchMultipleDatabasesReturn
    \/ \E fails \in BOOLEAN : SearchSelectedStep(fails)
    \/ SearchSelectedReturn

SpecMulti == MultiInit /\ [][MultiNext]_vars

\* what search_by_keyword returns for a keyword alone, on the store
Alone(keyword) == SearchByKeywordResult(store, keyword, search.config, FALSE).results
ReturnedFrom(fns) == search.pc = "returned" /\ search.fn \in fns

\* C17: search_multiple_keywords returns one (keyword, results) entry per input
\* keyword, in input order, a repeated keyword giving one entry per occurrence,
\* each with the results search_by_keyword gives for that keyword alone (every
\* occurrence is queried again);
\* search_from_input on an input that parses to no keyword returns the empty
\* sequence (and queries nothing).
C17_OneEntryPerKeyword ==
    /\ (ReturnedFrom({"search_multiple_keywords", "search_from_input"}) /\ search.out.ok) =>
          LET entries == search.out.value
              keywords == IF search.fn = "search_from_input"
                          THEN ParseSearchKeywords(search.input) ELSE search.keywords
          IN /\ Len(entries) = Len(keywords)
             /\ \A k \in 1 .. Len(keywords) :
                   entries[k] = <<keywords[k], Alone(keywords[k])>>
             /\ search.queries = SelectSeq([k \in 1 .. Len(keywords) |-> <<1, keywords[k]>>],
                                           LAMBDA q : ~IsBlank(q[2]))
    /\ (ReturnedFrom({"search_from_input"}) /\ ParseSearchKeywords(search.input) = <<>>) =>
          search.out = Ok(<<>>) /\ search.queries = <<>>

\* "ab", "_", "ab": three entries, the first and the third alike
C17_Witness ==
    /\ ReturnedFrom({"search_multiple_keywords"})
    /\ search.out.ok
    /\ search.keywords = << <<"a", "b">>, <<"_">>, <<"a", "b">> >>
    /\ Len(search.out.value) = 3
    /\ search.out.value[1] = search.out.value[3]
    /\ search.out.value[1][2] # <<>>
    /\ search.out.value[2] # search.out.value[1]

\* what search_by_keyword returns for a keyword alone, on a database file
AloneAt(p, keyword) ==
    SearchByKeywordResult(StoreAt(p), keyword, search.config, FALSE).results

\* C18: with selector "all", search_in_selected_database returns one (store name,
\* keyword, results) tuple for every (store, keyword) pair, stores in the given
\* order and keywords in their order within each store: |stores| x |keywords|
\* tuples, each at a place fixed by the inputs alone.
C18_AllStoresByKeywords ==
    (ReturnedFrom({"search_in_selected_database"}) /\ search.db_name = All /\ search.out.ok) =>
        LET tuples == search.out.value
            n == Len(search.db_paths)
            m == Len(search.keywords)
        IN /\ Len(tuples) = n * m
           /\ \A d \in 1 .. n : \A k \in 1 .. m :
                 tuples[(d - 1) * m + k] =
                     <<DbNameOf(search.db_paths[d]), search.keywords[k],
                       AloneAt(search.db_paths[d], search.keywords[k])>>

\* three stores, two of one file name, and two keywords: six tuples
C18_Witness ==
    /\ ReturnedFrom({"search_in_selected_database"})
    /\ search.db_name = All /\ search.out.ok
    /\ search.db_paths = <<PathXab, PathYab, PathXAB>>
    /\ search.keywords = << <<"a">>, <<"c">> >>
    /\ Len(search.out.value) = 6
    /\ search.out.value[4][1] = <<"a", "b">> /\ search.out.value[4][2] = <<"c">>
    /\ search.out.value[5][1] = <<"A", "B">> /\ search.out.value[5][2] = <<"a">>
    /\ search.out.value[1][3] # search.out.value[3][3]

\* the places of the stores whose file name is exactly the selector
Exact == {i \in 1 .. Len(search.db_paths) :
            search.db_paths[i].file = Some(search.db_name)}

\* C19: with a selector other than "all", search_in_selected_database fails with
\* the not-found error, before any query, unless some store's file name is exactly
\* the selector; on an exact match only that store is queried, and an Ok return
\* holds one tuple per keyword, in keyword order, each carrying that store name.
C19_ExactSelector ==
    (ReturnedFrom({"search_in_selected_database"}) /\ search.db_name # All) =>
        IF Exact = {}
        THEN search.out = Err("not found") /\ search.queries = <<>>
        ELSE /\ search.out # Err("not found")
             /\ \E d \in Exact :
                   /\ \A q \in 1 .. Len(search.queries) : search.queries[q][1] = d
                   /\ search.out.ok =>
                         /\ Len(search.out.value) = Len(search.keywords)
                         /\ \A k \in 1 .. Len(search.keywords) :
                               search.out.value[k] =
                                   <<search.db_name, search.keywords[k],
                                     AloneAt(search.db_paths[d], search.keywords[k])>>

\* selector "ab" among the stores AB and ab: only the second is queried
C19_Witness ==
    /\ ReturnedFrom({"search_in_selected_database"})
    /\ search.db_name = <<"a", "b">>
    /\ search.db_paths = <<PathXAB, PathXab>>
    /\ search.keywords = << <<"a">>, <<"c">> >>
    /\ search.out.ok
    /\ search.queries = << <<2, <<"a">> >>, <<2, <<"c">> >> >>
    /\ Len(search.out.value) = 2

Finished == search.pc \in {"returned", "responded"}

\* once a query has failed no further query is issued and nothing more is gathered
C20_Step ==
    search.failed =>
        /\ search'.queries = search.queries
        /\ search'.all_results = search.all_results
        /\ search'.out = search.out
\* a call in which a query failed ends at once with the error, which carries no
\* result, and the handler answers success = false, an error message and no results
C20_State ==
    search.failed =>
        /\ Finished
        /\ search.out = Err("query")
        /\ search.out.value = <<>>
        /\ search.pc = "responded" =>
              /\ ~search.response.success
              /\ search.response.error # None
              /\ search.response.results = <<>>

\* C20: a search returns no partial results: when the query of a (store, keyword)
\* pair fails, search_multiple_keywords and search_in_selected_database return an
\* error with none of the results gathered before, and search_handler answers
\* success = false with an error message and an empty results list.
C20_NoPartialResults == [] C20_State /\ [][C20_Step]_vars

\* the handler's answer after the second store's query failed, one result in hand
C20_Witness ==
    /\ search.pc = "responded"
    /\ search.failed
    /\ search.all_results # <<>> /\ search.all_results[1][3] # <<>>
    /\ Len(search.queries) = 2 /\ search.queries[2][1] = 2
    /\ search.response = [success |-> FALSE, results |-> <<>>,
                           error |-> Some(<<"Search failed", "query">>)]

-----------------------------------------------------------------------------
(* searcher.rs: build_tree. A PathBuf is the sequence of its components; the
   root directory is the component "/", the current directory the component "." *)

RootDir == <<"/">>
CurDir == <<".">>

\* Path::components of a path string: a leading "/" is the root directory, empty
\* pieces and "." are dropped except a "." that leads a relative path
Components(str) ==
    LET absolute == str # <<>> /\ str[1] = "/"
        pieces == Split(str, {"/"})
        Stays(i) == pieces[i] # <<>> /\ (pieces[i] # CurDir \/ (i = 1 /\ ~absolute))
        places == {i \in 1 .. Len(pieces) : Stays(i)}
        Nth(n) == CHOOSE i \in places : Cardinality({j \in places : j < i}) = n - 1
    IN (IF absolute THEN <<RootDir>> ELSE <<>>)
       \o [n \in 1 .. Cardinality(places) |-> pieces[Nth(n)]]

\* Path::parent().unwrap_or("."): no parent for the empty path and for the root
ParentOrCurDir(path) ==
    IF path = <<>> \/ path = <<RootDir>> THEN <<CurDir>>
    ELSE SubSeq(path, 1, Len(path) - 1)

\* Path::join with one component: the root directory replaces the path, "." adds
\* no component to a path that has one
PathJoin(path, part) ==
    IF part = RootDir THEN <<RootDir>>
    ELSE IF part = CurDir /\ path # <<>> THEN path
    ELSE Append(path, part)

\* Path::display of a path of components
RECURSIVE JoinWithSlash(_)
JoinWithSlash(parts) ==
    IF parts = <<>> THEN <<>>
    ELSE IF Len(parts) = 1 THEN parts[1]
    ELSE parts[1] \o <<"/">> \o JoinWithSlash(Tail(parts))
Display(path) ==
    IF path # <<>> /\ path[1] = RootDir THEN <<"/">> \o JoinWithSlash(Tail(path))
    ELSE JoinWithSlash(path)

\* find_common_path
FindCommonPath(path1, path2) ==
    LET min_len == Min(Len(path1), Len(path2))
        agree == {n \in 0 .. min_len : \A i \in 1 .. n : path1[i] = path2[i]}
        common == SubSeq(path1, 1, CHOOSE n \in agree : \A o \in agree : o <= n)
    IN IF common = <<>> THEN <<CurDir>> ELSE common

\* the loop of find_common_prefix over results[from ..], with its early break
RECURSIVE CommonLoop(_, _, _)
CommonLoop(common, results, from) ==
    IF from > Len(results) THEN common
    ELSE LET next == FindCommonPath(common, ParentOrCurDir(Components(results[from].path)))
         IN IF next = <<CurDir>> \/ next = <<RootDir>> \/ next = <<>>
            THEN next
            ELSE CommonLoop(next, results, from + 1)

\* find_common_prefix
FindCommonPrefix(results) ==
    IF results = <<>> THEN <<CurDir>>
    ELSE IF Len(results) = 1 THEN ParentOrCurDir(Components(results[1].path))
    ELSE CommonLoop(ParentOrCurDir(Components(results[1].path)), results, 2)

\* TreeNode::new
TreeNode(name, path) == [name |-> name, path |-> path, children |-> <<>>]

\* the walk of insert_path_into_tree: children are looked up by path
RECURSIVE InsertRelative(_, _)
InsertRelative(current, parts) ==
    IF parts = <<>> THEN current
    ELSE LET part_str == Head(parts)
             child_path == PathJoin(current.path, part_str)
             hits == {i \in 1 .. Len(current.children) :
                        current.children[i].path = child_path}
         IN IF hits # {}
            THEN LET idx == CHOOSE i \in hits : \A j \in hits : i <= j
                 IN [current EXCEPT !.children[idx] = InsertRelative(@, Tail(parts))]
            ELSE [current EXCEPT !.children =
                     Append(@, InsertRelative(TreeNode(part_str, child_path), Tail(parts)))]

\* insert_full_path_into_tree: children are looked up by name
RECURSIVE InsertFullPathIntoTree(_, _)
InsertFullPathIntoTree(current, parts) ==
    IF parts = <<>> THEN current
    ELSE LET part_str == Head(parts)
             child_path == IF current.path = <<>> THEN <<part_str>>
                           ELSE PathJoin(current.path, part_str)
             hits == {i \in 1 .. Len(current.children) :
                        current.children[i].name = part_str}
         IN IF hits # {}
            THEN LET idx == CHOOSE i \in hits : \A j \in hits : i <= j
                 IN [current EXCEPT !.children[idx] = InsertFullPathIntoTree(@, Tail(parts))]
            ELSE [current EXCEPT !.children =
                     Append(@, InsertFullPathIntoTree(TreeNode(part_str, child_path),
                                                      Tail(parts)))]

\* insert_path_into_tree
InsertPathIntoTree(root, target_path) ==
    IF ~IsPrefix(root.path, target_path)
    THEN InsertFullPathIntoTree(root, target_path)
    ELSE InsertRelative(root, SubSeq(target_path, Len(root.path) + 1, Len(target_path)))

\* String's ordering: less or equal, byte-wise
StrLeq(x, y) == x = y \/ StrLess(x, y)

\* a stable sort of nodes by lower-cased name (slice::sort_by_key)
RECURSIVE InsertSorted(_, _)
InsertSorted(sorted, node) ==
    IF sorted = <<>> THEN <<node>>
    ELSE LET last == sorted[Len(sorted)]
         IN IF StrLeq(ToLowercase(last.name), ToLowercase(node.name))
            THEN Append(sorted, node)
            ELSE Append(InsertSorted(SubSeq(sorted, 1, Len(sorted) - 1), node), last)
RECURSIVE SortByKey(_)
SortByKey(nodes) ==
    IF nodes = <<>> THEN <<>>
    ELSE InsertSorted(SortByKey(SubSeq(nodes, 1, Len(nodes) - 1)), nodes[Len(nodes)])

\* a sort of the root's children only
SortChildrenShallow(node) == [node EXCEPT !.children = SortByKey(@)]

\* TreeNode::sort_children
RECURSIVE SortChildren(_)
SortChildren(node) ==
    LET sorted == SortByKey(node.children)
    IN [node EXCEPT !.children = [i \in 1 .. Len(sorted) |-> SortChildren(sorted[i])]]

\* the loop of build_tree over the results
RECURSIVE InsertAll(_, _)
InsertAll(root, results) ==
    IF results = <<>> THEN root
    ELSE InsertAll(InsertPathIntoTree(root, Components(Head(results).path)), Tail(results))

\* a build_tree that names and anchors the root of an empty result list like any
\* other
BuildTreeAlwaysAnchored(results, root_name) ==
    LET common_prefix == FindCommonPrefix(results)
        root == TreeNode(root_name \o <<" ", "(">> \o Display(common_prefix) \o <<")">>,
                         common_prefix)
    IN SortChildren(InsertAll(root, results))

\* build_tree
BuildTree(results, root_name) ==
    IF results = <<>> THEN TreeNode(root_name, <<>>)
    ELSE LET common_prefix == FindCommonPrefix(results)
             root == TreeNode(root_name \o <<" ", "(">> \o Display(common_prefix) \o <<")">>,
                              common_prefix)
         IN SortChildren(InsertAll(root, results))

\* the results build_tree is given: absolute paths, one of them an ancestor of
\* others, and relative ones
TreePaths ==
    { <<"/", "d", "/", "a", "b">>, <<"/", "d", "/", "A", "B">>, <<"/", "a", "b", "/", "c">>,
      <<"/", "d", "/", "B", "/", "c">>, <<"/", "d">>, <<"d", "/", "a", "b">>, <<"c">> }
ResultAt(path) ==
    LET parts == Components(path) IN [path |-> path, name |-> parts[Len(parts)]]
TreeResultLists ==
    UNION { [1 .. n -> {ResultAt(path) : path \in TreePaths}] : n \in 0 .. MaxTreeResults }

\* a caller about to build the tree of a result list
TreeInit ==
    /\ fs = [root |-> "dir", unreadable |-> {}]
    /\ store = SearchStore
    /\ batch_size = 1
    /\ startStore = SearchStore
    /\ IdxIdle
    /\ dbCall = NoDbCall
    /\ \E results \in TreeResultLists :
         search = [pc |-> "call", results |-> results, root_name |-> <<"r">>,
                   tree |-> TreeNode(<<>>, <<>>)]

\* the call of build_tree
BuildTreeCall ==
    /\ search.pc = "call"
    /\ search' = [search EXCEPT !.pc = "done",
                                !.tree = BuildTree(search.results, search.root_name)]
    /\ UNCHANGED <<idxVars, store, dbCall>>

TreeNext == BuildTreeCall

SpecTree == TreeInit /\ [][TreeNext]_vars

Built == search.pc = "done"
\* the parent directories of the results and their longest common prefix
ParentDirs(results) ==
    {ParentOrCurDir(Components(results[i].path)) : i \in 1 .. Len(results)}
CommonAncestor(results) ==
    LET dirs == ParentDirs(results)
        one == CHOOSE d \in dirs : TRUE
        shared == {n \in 0 .. Len(one) : \A d \in dirs : IsPrefix(SubSeq(one, 1, n), d)}
    IN SubSeq(one, 1, CHOOSE n \in shared : \A o \in shared : o <= n)
\* the same directory: the empty path and "." both stand for the current directory
SameDir(x, y) == x = y \/ ({x, y} \subseteq {<<>>, <<CurDir>>})
\* the orders of a list
Shuffles(q) ==
    {[i \in 1 .. Len(q) |-> q[order[i]]] : order \in Orders(1 .. Len(q))}

\* C21: for a non-empty result list build_tree puts the root at the longest
\* component-wise common prefix of the results' parent directories (for one
\* result, its parent), the same for every order of the results, and names the
\* root "{root_label} ({common_path})".
C21_RootAtCommonAncestor ==
    (Built /\ search.results # <<>>) =>
        /\ SameDir(search.tree.path, CommonAncestor(search.results))
        /\ \A other \in Shuffles(search.results) :
              BuildTree(other, search.root_name).path = search.tree.path
        /\ search.tree.name =
              search.root_name \o <<" ", "(">> \o Display(search.tree.path) \o <<")">>

\* the nodes below a node, as a sequence (every node once, parents first)
RECURSIVE NodesBelow(_)
RECURSIVE NodesFrom(_, _)
NodesFrom(children, i) ==
    IF i > Len(children) THEN <<>>
    ELSE <<children[i]>> \o NodesBelow(children[i]) \o NodesFrom(children, i + 1)
NodesBelow(node) == NodesFrom(node.children, 1)
\* a path without a leading "."
Plain(path) == IF path # <<>> /\ path[1] = CurDir THEN Tail(path) ELSE path
\* the directories and files of the results that lie below a directory
EntriesBelow(results, dir) ==
    UNION { {SubSeq(path, 1, n) : n \in (Len(Plain(dir)) + 1) .. Len(path)} :
              path \in {Components(results[i].path) : i \in 1 .. Len(results)} }
ResultPaths(results) == {Components(results[i].path) : i \in 1 .. Len(results)}
NoneIsAncestor(results) ==
    \A x, y \in ResultPaths(results) : x = y \/ ~IsPrefix(x, y)

\* C22: build_tree makes one node per distinct directory or file of the results
\* below the common ancestor: no two nodes of the tree (so no two siblings) have
\* the same path, the nodes' paths are exactly those directories and files, and
\* when no result path is an ancestor of another the leaves are exactly the
\* distinct result paths, one leaf each.
C22_OneNodePerEntry ==
    (Built /\ search.results # <<>>) =>
        LET nodes == NodesBelow(search.tree)
            leaves == SelectSeq(nodes, LAMBDA node : node.children = <<>>)
        IN /\ \A i, j \in 1 .. Len(nodes) : nodes[i].path = nodes[j].path => i = j
           /\ \A i \in 1 .. Len(nodes) :
                 \A j, k \in 1 .. Len(nodes[i].children) :
                     nodes[i].children[j].path = nodes[i].children[k].path => j = k
           /\ {Plain(nodes[i].path) : i \in 1 .. Len(nodes)}
                 = EntriesBelow(search.results, search.tree.path)
           /\ Len(nodes) = Cardinality(EntriesBelow(search.results, search.tree.path))
           /\ NoneIsAncestor(search.results) =>
                 /\ Len(leaves) = Cardinality(ResultPaths(search.results))
                 /\ {Plain(leaves[i].path) : i \in 1 .. Len(leaves)}
                       = ResultPaths(search.results)

\* the children of a node are in non-decreasing order of lower-cased name
ChildrenSorted(node) ==
    \A i \in 1 .. (Len(node.children) - 1) :
        StrLeq(ToLowercase(node.children[i].name), ToLowercase(node.children[i + 1].name))

\* C23: in the tree build_tree returns, the children of every node, at every
\* depth, are in non-decreasing order of their lower-cased names.
C23_ChildrenSorted ==
    Built =>
        /\ ChildrenSorted(search.tree)
        /\ \A i \in 1 .. Len(NodesBelow(search.tree)) : ChildrenSorted(NodesBelow(search.tree)[i])

\* /d/B/c, /d/ab, /ab/c: "d" was inserted before "ab", and below it "B" before "ab"
C23_Witness ==
    /\ Built
    /\ search.results = <<ResultAt(<<"/", "d", "/", "B", "/", "c">>),
                          ResultAt(<<"/", "d", "/", "a", "b">>),
                          ResultAt(<<"/", "a", "b", "/", "c">>)>>
    /\ [i \in 1 .. 2 |-> search.tree.children[i].name] = << <<"a", "b">>, <<"d">> >>
    /\ [i \in 1 .. 2 |-> search.tree.children[2].children[i].name] = << <<"a", "b">>, <<"B">> >>

\* C24: build_tree on an empty result list returns a single node named exactly
\* root_label, with an empty path and no children.
C24_EmptyResults ==
    (Built /\ search.results = <<>>) =>
        search.tree = [name |-> search.root_name, path |-> <<>>, children |-> <<>>]

\* the tree of no results
C24_Witness ==
    /\ Built
    /\ search.results = <<>>
    /\ search.tree.name = <<"r">>

-----------------------------------------------------------------------------
(* Properties of the writer's batching, the channel and the progress counter *)

\* the smallest number of batches of at most size records that hold n records
CeilDiv(n, size) == (n + size - 1) \div size

\* the writer is about to call add_idxs inside the loop / after the loop
InLoopCommit == wpc = "commit"
FinalFlush == wpc = "flush"

C25_State ==
    /\ InLoopCommit => Len(batch) = batch_size
    /\ FinalFlush => Len(batch) >= 1 /\ Len(batch) <= batch_size - 1
    /\ \A i \in 1 .. Len(commits) : commits[i] >= 1
    /\ ReturnedOk => Len(commits) = CeilDiv(nEmitted, batch_size)

C25_Step ==
    commits' # commits /\ run' = run =>
        /\ Len(commits') = Len(commits) + 1
        /\ InLoopCommit => commits'[Len(commits')] = batch_size
        /\ FinalFlush => commits'[Len(commits')] \in 1 .. (batch_size - 1)
        /\ InLoopCommit \/ FinalFlush

\* C25: every batch the writer hands to add_idxs inside the receive loop holds exactly
\* batch_size records, the batch flushed after the loop holds between 1 and
\* batch_size - 1 records, no commit is empty, and a run that returns Ok after N
\* records were emitted has made exactly ceil(N / batch_size) commits.
C25_BatchSizes == [] C25_State /\ [][C25_Step]_vars

\* three records with batch_size 2: one full batch in the loop, then a flush of one
C25_Witness ==
    /\ ReturnedOk
    /\ batch_size = 2
    /\ nEmitted = 3
    /\ commits = <<2, 1>>

\* a worker has a record to send: its closure over a file has not completed
Pending == {p \in Files : \E d \in Scannable : task[d] = "files" /\ p \in PartFiles(d) \ handled}
ChannelFull == Len(chan) >= 2 * batch_size

C26_State ==
    /\ Len(chan) <= 2 * batch_size
    /\ Len(batch) <= batch_size

C26_Step ==
    run' = run =>
        /\ Len(chan') > Len(chan) =>
              /\ Len(chan) < 2 * batch_size
              /\ Len(chan') = Len(chan) + 1
              /\ nEmitted' = nEmitted + 1
        /\ nEmitted' # nEmitted => Len(chan') = Len(chan) + 1 /\ ~ChannelFull
        /\ ChannelFull /\ rxAlive => handled' = handled

\* C26: the channel never holds more than 2 * batch_size records and the writer's
\* buffer never more than batch_size; a record enters the channel only from a state
\* in which the channel has a free slot, and while the channel is full and the
\* receiver is alive no worker's send completes.
C26_BoundedQueue == [] C26_State /\ [][C26_Step]_vars

\* the writer is busy with a full buffer, the channel is full and a worker still has a
\* record to send
C26_Witness ==
    /\ rxAlive
    /\ ChannelFull
    /\ wpc = "commit"
    /\ Len(batch) = batch_size
    /\ Pending # {}

C27_State ==
    /\ counter <= SumSeq(commits)
    /\ ReturnedOk => counter = nEmitted

C27_Step ==
    run' = run =>
        /\ counter' >= counter
        /\ counter' # counter =>
              /\ wpc \in {"commit", "flush"}
              /\ counter' = counter + Len(batch)
              /\ commits' = Append(commits, Len(batch))
              /\ nFailed' = nFailed

\* C27: within a run the progress counter never decreases; it changes only in the
\* writer's step after add_idxs, by the size of the batch whose commit succeeded in
\* that step; it never exceeds the number of records in the committed batches, and
\* when the run returns Ok it equals the number of records emitted.
C27_CounterFollowsCommits == [] C27_State /\ [][C27_Step]_vars

\* a run in which one batch was committed and counted, and whose next commit failed
C27_Witness ==
    /\ Returned
    /\ ~result[1].ok
    /\ commits = <<2>>
    /\ nFailed = 1
    /\ counter = 2
    /\ nEmitted > 2

\* a run that returned Ok with every emitted record counted
C27_WitnessOk ==
    /\ ReturnedOk
    /\ counter = 4
    /\ nEmitted = 4

-----------------------------------------------------------------------------
(* The indexing pipeline over a store whose commits succeed, under fair scheduling *)

\* add_idxs returns Ok
CommitSucceeds == nFailed' = nFailed

\* the steps of the rayon workers, and of the writer thread
Worker ==
    \E d \in Scannable :
        \/ ListDir(d)
        \/ \E p \in Files : SendFile(d, p)
        \/ ScanDirs(d)
        \/ ScanReturn(d)

Writer ==
    \/ WriterRecv
    \/ WriterCommit /\ CommitSucceeds
    \/ WriterClosed
    \/ WriterFlush /\ CommitSucceeds

\* one run is followed from its start to its return
LiveNext ==
    \/ \E meta \in BOOLEAN : StartRun(meta) /\ run = 0
    \/ Worker
    \/ Writer
    \/ Return

\* A worker that can take a step is eventually run by the pool, the writer thread and
\* the calling thread are scheduled by the operating system; nothing obliges the
\* caller to start another run.
SpecLive ==
    /\ Init
    /\ [][LiveNext]_vars
    /\ WF_vars(Worker)
    /\ WF_vars(Writer)
    /\ WF_vars(Return)

\* every worker that still has something to do is blocked in send on a full channel
ProducersBlocked ==
    /\ rxAlive
    /\ ChannelFull
    /\ Pending # {}
    /\ \A d \in Scannable :
          /\ task[d] # "start"
          /\ task[d] = "files" => PartFiles(d) \ handled # {}
          /\ task[d] = "dirs" => \E c \in PartDirs(d) : task[c] # "done"

\* the writer waits on an empty channel, or has left its loop
WriterBlockedOrFinished ==
    \/ wpc = "recv" /\ chan = <<>>
    \/ wpc \in {"idle", "flush", "ok", "err"}

C28_State ==
    /\ ~(ProducersBlocked /\ WriterBlockedOrFinished)
    /\ wpc \in {"flush", "ok"} => Senders = 0 /\ chan = <<>>
    /\ wpc = "ok" => batch = <<>>

\* C28: under fair scheduling and with commits that succeed, a run that has started
\* eventually returns; once every Sender is dropped the writer drains the channel,
\* flushes and exits (it leaves its loop only with every Sender dropped and the
\* channel empty, and exits with an empty buffer); and in no reachable state are all
\* workers blocked on a full channel while the writer is blocked or finished.
C28_RunReturns ==
    /\ [] C28_State
    /\ (mainpc = "scanning") ~> (mainpc = "returned")
    /\ (mainpc = "scanning" /\ Senders = 0) ~> (wpc = "ok" /\ chan = <<>> /\ batch = <<>>)

\* a run over the whole tree with a channel of two slots has returned Ok
C28_Witness ==
    /\ ReturnedOk
    /\ batch_size = 1
    /\ fs.unreadable = {}
    /\ nEmitted = 4
    /\ Len(commits) = 4
    /\ Senders = 0

-----------------------------------------------------------------------------
(* Who writes to the store, and what the skip list holds *)

\* a writer thread is running
WriterRunning == wpc \in {"recv", "commit", "flush"}

C29_State ==
    /\ WriterRunning => mainpc = "scanning"
    /\ mainpc = "returned" => wpc \in {"idle", "ok", "err"}

C29_Step ==
    store' # store =>
        /\ mainpc = "scanning" /\ mainpc' = "scanning"
        /\ wpc \in {"commit", "flush"}
        /\ wpc' \in {"recv", "ok", "err"}
        /\ \E failAt \in FailPoints(Len(batch)) : store' = AddIdxs(store, batch, failAt).db
        /\ batch' = <<>>
        /\ task' = task /\ handled' = handled /\ skipped_paths' = skipped_paths
        /\ nEmitted' = nEmitted

\* C29: the store changes only in a step of the run's writer thread, which is one
\* add_idxs call over the writer's current batch, begun and ended in that step before
\* the next batch is received; no step of a scanner worker changes the store, and
\* the writer thread has ended when the run returns, so that no writer of an earlier
\* run is alive beside the next run's.
C29_SingleWriter == [] C29_State /\ [][C29_Step]_vars

\* the writer has committed a batch and is about to commit the next while workers
\* still have records to send
C29_Witness ==
    /\ mainpc = "scanning"
    /\ commits # <<>>
    /\ store # startStore
    /\ wpc = "commit"
    /\ Pending # {}

\* the paths scan_directory_parallel was called on in this run and could not list
FailedListings == {d \in Scannable : task[d] = "done" /\ ~ReadDir(d).ok}

ExactlyFailed(q) ==
    /\ Len(q) = Cardinality(FailedListings)
    /\ \A d \in Scannable : Occurrences(d, q) = IF d \in FailedListings THEN 1 ELSE 0

C30_State ==
    /\ mainpc = "scanning" => ExactlyFailed(skipped_paths)
    /\ ReturnedOk => ExactlyFailed(result[1].skipped_paths)

C30_Step ==
    run' = run =>
        \A d \in Scannable :
            /\ task[d] = "done" => task'[d] = "done"
            /\ InSeq(d, skipped_paths) => task'[d] = "done" /\ InSeq(d, skipped_paths')
            /\ task[d] # "start" => Occurrences(d, skipped_paths') = Occurrences(d, skipped_paths)

\* C30: while a run scans, and in the value it returns with Ok, the skip list holds
\* exactly the paths whose listing failed in that run, each once; a path once in the
\* list stays in it, and a path whose listing has been tried is never listed again.
C30_SkipListExact == [] C30_State /\ [][C30_Step]_vars

\* a run that skipped two paths, pushed by two workers running side by side
C30_Witness ==
    /\ ReturnedOk
    /\ result[1].skipped_paths = << <<"r", "x">>, <<"r", "a">> >>
    /\ nEmitted = 3

-----------------------------------------------------------------------------
(* What the skip list records, and what a run's outcome depends on *)

\* C31: every path in the skip list is a directory whose listing failed; an entry
\* that is not a directory, regular file or not, is never in the skip list.
C31_SkippedAreDirectories ==
    \A i \in 1 .. Len(skipped_paths) :
        /\ KindOf(skipped_paths[i]) = "dir"
        /\ ~ReadDir(skipped_paths[i]).ok

\* What a successful run makes of a store, as a function of the tree, the variant and
\* the store it started from: the rows of every file found replace the rows that held
\* their paths.
Upserted(db, recs) ==
    [r \in {x \in DOMAIN db : \A n \in recs : n.path # x.path} \cup recs |->
        IF r \in recs THEN 1 ELSE db[r]]

\* the paths the walk calls scan_directory_parallel on: the root and every entry that
\* is not a file below directories that can all be listed
Visited == {d \in Scannable : \A a \in AllPaths : Under(a, d) => Listable(a)}
ExpectedSkipped == {d \in Visited : ~ReadDir(d).ok}

SeqToSet(q) == {q[i] : i \in 1 .. Len(q)}

\* C32: the store and the set of skipped paths of a run that returned Ok are functions
\* of the tree, the variant and the store the run started from: they are the same
\* for every interleaving of the workers and the writer (and for every batch_size).
C32_OutcomeIndependentOfInterleaving ==
    ReturnedOk =>
        /\ store = Upserted(startStore, ExpectedRecords)
        /\ SeqToSet(result[1].skipped_paths) = ExpectedSkipped

\* a run over a stale store whose two skipped paths were pushed in the order b, x
C32_Witness ==
    /\ ReturnedOk
    /\ startStore = StaleStore
    /\ nEmitted = 2
    /\ result[1].skipped_paths = << <<"r", "b">>, <<"r", "x">> >>

\* the same run with the two pushes in the other order
C32_WitnessOtherOrder ==
    /\ ReturnedOk
    /\ startStore = StaleStore
    /\ nEmitted = 2
    /\ result[1].skipped_paths = << <<"r", "x">>, <<"r", "b">> >>

\* two records in the channel in one order, and in the other
C32_EmittedOneOrder == chan = <<Emit(<<"r", "a", "f2">>), Emit(<<"r", "b", "f3">>)>>
C32_EmittedOtherOrder == chan = <<Emit(<<"r", "b", "f3">>), Emit(<<"r", "a", "f2">>)>>

\* path and name of the records a run of either variant emits over the tree
PathAndName(r) == <<r.path, r.name>>
ExpectedPathsAndNames == {<<p, FileName(p)>> : p \in FoundFiles}

\* C33: whichever variant runs, every record emitted is the metadata-free record of
\* a file found, but for its mtime and size; a run that returned Ok has emitted the
\* same set of (path, name) pairs and skipped the same set of paths as the other
\* variant does on the same tree, both being functions of the tree alone.
C33_VariantsTraverseAlike ==
    /\ \A r \in emitted :
          /\ r.path \in FoundFiles
          /\ r = [FileIndex(r.path) EXCEPT !.mtime = r.mtime, !.size = r.size]
          /\ ~withMeta => r = FileIndex(r.path)
    /\ ReturnedOk =>
          /\ {PathAndName(r) : r \in emitted} = ExpectedPathsAndNames
          /\ SeqToSet(result[1].skipped_paths) = ExpectedSkipped

\* a metadata-bearing run after a metadata-free run of the same tree: the rows the
\* first run wrote without metadata now carry it
C33_Witness ==
    /\ ReturnedOk
    /\ withMeta
    /\ prev # None /\ prev[1].ok /\ ~prev[1].meta
    /\ FileIndex(<<"r", "f1">>) \in Rows(startStore)
    /\ FileIndexWithMetadata(<<"r", "f1">>) \in Rows(store)
    /\ FileIndexWithMetadata(<<"r", "f1">>) # FileIndex(<<"r", "f1">>)
    /\ Len(result[1].skipped_paths) = 2

-----------------------------------------------------------------------------
(* The paths of a tree's nodes *)

-----------------------------------------------------------------------------
(* The indexing pipeline over a store whose commits can fail, under fair scheduling *)

\* the steps of the writer thread, add_idxs returning Ok or Err
WriterOrFailure ==
    \/ WriterRecv
    \/ WriterCommit
    \/ WriterClosed
    \/ WriterFlush

\* one run is followed from its start to its return
FailingNext ==
    \/ \E meta \in BOOLEAN : StartRun(meta) /\ run = 0
    \/ Worker
    \/ WriterOrFailure
    \/ Return

SpecFailing ==
    /\ Init
    /\ [][FailingNext]_vars
    /\ WF_vars(Worker)
    /\ WF_vars(WriterOrFailure)
    /\ WF_vars(Return)

WalkEnded == \A d \in Scannable : task[d] \in {"none", "done"}

C35_State ==
    /\ wpc = "err" => ~rxAlive /\ chan = <<>> /\ nFailed = 1
    /\ (Returned /\ nFailed > 0) =>
          /\ ~result[1].ok
          /\ WalkEnded
          /\ handled = FoundFiles

\* C35: after a commit has failed the receiver is gone, and under fair scheduling
\* the run still ends: every worker's send completes (its error ignored), the walk
\* reaches its end with every file found handled, and the call returns the
\* writer's error.
C35_FailedRunReturns ==
    /\ [] C35_State
    /\ (nFailed > 0) ~> WalkEnded
    /\ (nFailed > 0) ~> (Returned /\ ~result[1].ok)

\* the first commit failed while three files were still to be sent: their sends
\* failed and were ignored, and the run has returned the error
C35_Witness ==
    /\ Returned
    /\ ~result[1].ok
    /\ nFailed = 1
    /\ commits = <<>>
    /\ nEmitted = 1
    /\ Cardinality(handled) = 4

-----------------------------------------------------------------------------
(* What a run leaves of the store it found *)

\* the row of a file that is no longer in the tree
GoneRow == IndexNew(<<"r", "gone">>, "gone")

C36_State ==
    /\ Paths(startStore) \subseteq Paths(store)
    /\ \A r \in Rows(startStore) : r.path \notin AllPaths => r \in Rows(store)

C36_Step == Paths(store) \subseteq Paths(store')

\* C36: no step of a run of either variant, successful or not, removes a path from
\* the store: every path the store held when the run started is still in it, and
\* the row of a file that is no longer in the tree is still there unchanged.
C36_NothingRemoved == [] C36_State /\ [][C36_Step]_vars

\* a run over a store left by an older tree has returned Ok: the row of r/f1 was
\* replaced and the row of the deleted file r/gone is still there
C36_Witness ==
    /\ ReturnedOk
    /\ startStore = StaleStore
    /\ nEmitted = 4
    /\ GoneRow \in Rows(store)
    /\ <<"r", "gone">> \notin AllPaths
    /\ Emit(<<"r", "f1">>) \in Rows(store)
    /\ Emit(<<"r", "f1">>) \notin Rows(startStore)
    /\ BagCardinality(store) = 5

-----------------------------------------------------------------------------
(* A root that cannot be listed *)

RootNotListable == Exists(Root) /\ ~ReadDir(Root).ok

C37_WitnessUnreadable ==
    /\ fs.root = "dir" /\ Root \in fs.unreadable
    /\ ReturnedOk
    /\ result[1].skipped_paths = <<Root>>

-----------------------------------------------------------------------------
(* batch_size = 0: bounded(0) is a rendezvous channel, which holds no record; a
   send completes in the step in which the writer receives its record *)

ZeroInit ==
    /\ fs \in FsChoices
    /\ store \in {EmptyStore, StaleStore}
    /\ batch_size = 0
    /\ startStore = store
    /\ IdxIdle
    /\ dbCall = NoDbCall
    /\ search = NoSearch

\* a writer that compares batch.len() == batch_size
RendezvousCommitOnEqual(d, p) ==
    /\ Capacity = 0
    /\ task[d] = "files"
    /\ p \in PartFiles(d) \ handled
    /\ rxAlive
    /\ wpc = "recv"
    /\ batch' = Append(batch, Emit(p))
    /\ wpc' = IF Len(batch) + 1 = batch_size THEN "commit" ELSE "recv"
    /\ emitted' = emitted \cup {Emit(p)}
    /\ nEmitted' = nEmitted + 1
    /\ handled' = handled \cup {p}
    /\ UNCHANGED <<fs, batch_size, withMeta, mainpc, result, task, skipped_paths, chan,
                   rxAlive, counter, run, commits, nFailed, startStore, prev, store,
                   dbCall, search>>

\* tx.send(idx) of a worker meets the writer's `for idx in rx`: the record passes
\* from the one to the other, is pushed, and batch.len() >= batch_size is tested
Rendezvous(d, p) ==
    /\ Capacity = 0
    /\ task[d] = "files"
    /\ p \in PartFiles(d) \ handled
    /\ rxAlive
    /\ wpc = "recv"
    /\ batch' = Append(batch, Emit(p))
    /\ wpc' = IF Len(batch) + 1 >= batch_size THEN "commit" ELSE "recv"
    /\ emitted' = emitted \cup {Emit(p)}
    /\ nEmitted' = nEmitted + 1
    /\ handled' = handled \cup {p}
    /\ UNCHANGED <<fs, batch_size, withMeta, mainpc, result, task, skipped_paths, chan,
                   rxAlive, counter, run, commits, nFailed, startStore, prev, store,
                   dbCall, search>>

\* the workers' steps: with no slot in the channel, SendFile completes only once the
\* receiver is gone
ZeroWorker ==
    \E d \in Scannable :
        \/ ListDir(d)
        \/ \E p \in Files : Rendezvous(d, p)
        \/ \E p \in Files : SendFile(d, p)
        \/ ScanDirs(d)
        \/ ScanReturn(d)

\* the writer's steps on its own: a record is received only in a rendezvous, and
\* the buffer is empty whenever the loop ends
ZeroWriter ==
    \/ WriterCommit
    \/ WriterClosed

ZeroNext ==
    \/ \E meta \in BOOLEAN : StartRun(meta) /\ run = 0
    \/ ZeroWorker
    \/ ZeroWriter
    \/ Return

SpecZero ==
    /\ ZeroInit
    /\ [][ZeroNext]_vars
    /\ WF_vars(ZeroWorker)
    /\ WF_vars(ZeroWriter)
    /\ WF_vars(Return)

C38_State ==
    /\ batch_size = 0 /\ Capacity = 0
    /\ chan = <<>>
    /\ Len(batch) <= 1
    /\ wpc = "commit" <=> Len(batch) = 1
    /\ wpc # "flush"
    /\ \A i \in 1 .. Len(commits) : commits[i] = 1
    /\ ReturnedOk =>
          /\ Len(commits) = nEmitted
          /\ \A r \in emitted : r \in Rows(store)
          /\ \A f \in FoundFiles : Emit(f) \in emitted

C38_Step ==
    nEmitted' # nEmitted /\ run' = run =>
        /\ wpc = "recv" /\ wpc' = "commit"
        /\ batch = <<>> /\ Len(batch') = 1
        /\ emitted' = emitted \cup {batch'[1]}

\* C38: with batch_size 0 the channel never holds a record and a send completes
\* only in the step in which the writer receives the record; the writer commits
\* every record as a batch of one and never flushes; the run returns under fair
\* scheduling, and when it returns Ok every record emitted is a row of the store.
C38_ZeroBatchSize ==
    /\ [] C38_State
    /\ [][C38_Step]_vars
    /\ (mainpc = "scanning") ~> Returned

\* a run with batch_size 0 over the whole tree has returned Ok after four commits
C38_Witness ==
    /\ batch_size = 0
    /\ ReturnedOk
    /\ nEmitted = 4
    /\ commits = <<1, 1, 1, 1>>
    /\ counter = 4

-----------------------------------------------------------------------------
(* history.rs: SearchHistory. The history file is absent or holds the JSON array
   save_history wrote; an item stands in the array as the values of its fields *)

\* SearchHistoryItem; timestamp is the caller's clock at the call
HistoryItem(query, timestamp) ==
    [query |-> query, selected_db |-> "all", timestamp |-> timestamp,
     result_count |-> 0, name_only |-> FALSE, case_sensitive |-> FALSE]
NoItem == HistoryItem("", 0)

\* serde_json::to_string_pretty of the items, and serde_json::from_str of the array
ToJson(history) ==
    [i \in 1 .. Len(history) |->
        <<history[i].query, history[i].selected_db, history[i].timestamp,
          history[i].result_count, history[i].name_only, history[i].case_sensitive>>]
FromJson(content) ==
    [i \in 1 .. Len(content) |->
        [query |-> content[i][1], selected_db |-> content[i][2],
         timestamp |-> content[i][3], result_count |-> content[i][4],
         name_only |-> content[i][5], case_sensitive |-> content[i][6]]]

\* load_history: no file is an empty history; a read that fails is an Err
LoadHistory(file, readFails) ==
    IF file = None THEN [ok |-> TRUE, history |-> <<>>]
    ELSE IF readFails THEN [ok |-> FALSE, history |-> <<>>]
    ELSE [ok |-> TRUE, history |-> FromJson(file[1])]

\* save_history: create_dir_all or fs::write fails before the file is changed, or
\* the file holds the array
SaveHistory(file, history, writeFails) ==
    IF writeFails THEN [ok |-> FALSE, file |-> file]
    ELSE [ok |-> TRUE, file |-> Some(ToJson(history))]

\* Vec::truncate, Vec::remove (index from 0)
Truncate(q, len) == IF Len(q) > len THEN SubSeq(q, 1, len) ELSE q
RemoveAt(q, index) == SubSeq(q, 1, index) \o SubSeq(q, index + 2, Len(q))

\* an add_entry that pushes the item at the end
AddEntryPush(file, max_entries, item, readFails, writeFails) ==
    LET loaded == LoadHistory(file, readFails)
        history == Append(loaded.history, item)
        kept == IF Len(history) > max_entries THEN Truncate(history, max_entries)
                ELSE history
    IN IF ~loaded.ok THEN [ok |-> FALSE, file |-> file]
       ELSE SaveHistory(file, kept, writeFails)

\* SearchHistory::add_entry
AddEntry(file, max_entries, item, readFails, writeFails) ==
    LET loaded == LoadHistory(file, readFails)
        history == <<item>> \o loaded.history
        kept == IF Len(history) > max_entries THEN Truncate(history, max_entries)
                ELSE history
    IN IF ~loaded.ok THEN [ok |-> FALSE, file |-> file]
       ELSE SaveHistory(file, kept, writeFails)

\* SearchHistory::clear
Clear(file, writeFails) == SaveHistory(file, <<>>, writeFails)

\* SearchHistory::remove
Remove(file, index, readFails, writeFails) ==
    LET loaded == LoadHistory(file, readFails)
    IN IF ~loaded.ok THEN [ok |-> FALSE, file |-> file]
       ELSE IF index < Len(loaded.history)
            THEN SaveHistory(file, RemoveAt(loaded.history, index), writeFails)
            ELSE [ok |-> TRUE, file |-> file]

HistoryQueries == {"a", "b"}

\* SearchHistory::new over a history file that does not exist yet
HistoryInit ==
    /\ fs = [root |-> "dir", unreadable |-> {}]
    /\ store = SearchStore
    /\ batch_size = 1
    /\ startStore = SearchStore
    /\ IdxIdle
    /\ dbCall = NoDbCall
    /\ \E max_entries \in 0 .. MaxEntries :
         search = [pc |-> "history", max_entries |-> max_entries, file |-> None,
                   calls |-> 0, op |-> "new", item |-> NoItem, index |-> 0,
                   io_failed |-> FALSE, ok |-> TRUE]

\* one call returns: the file it leaves and what it returned
HistoryCall(op, item, index, io_failed, r) ==
    /\ search.pc = "history"
    /\ search.calls < MaxHistoryCalls
    /\ search' = [search EXCEPT !.file = r.file, !.calls = @ + 1, !.op = op,
                                !.item = item, !.index = index,
                                !.io_failed = io_failed, !.ok = r.ok]
    /\ UNCHANGED <<idxVars, store, dbCall>>

AddEntryCall ==
    \E query \in HistoryQueries, readFails, writeFails \in BOOLEAN :
        LET item == HistoryItem(query, search.calls + 1)
        IN HistoryCall("add_entry", item, 0, readFails \/ writeFails,
                       AddEntry(search.file, search.max_entries, item, readFails, writeFails))

RemoveCall ==
    \E index \in 0 .. (MaxEntries + 1), readFails, writeFails \in BOOLEAN :
        HistoryCall("remove", NoItem, index, readFails \/ writeFails,
                    Remove(search.file, index, readFails, writeFails))

ClearCall ==
    \E writeFails \in BOOLEAN :
        HistoryCall("clear", NoItem, 0, writeFails, Clear(search.file, writeFails))

HistoryNext ==
    \/ AddEntryCall
    \/ RemoveCall
    \/ ClearCall

SpecHistory == HistoryInit /\ [][HistoryNext]_vars

\* the stored history: what get_all returns when the file can be read
Stored(s) == LoadHistory(s.file, FALSE).history

C39_State ==
    search.pc = "history" =>
        /\ Len(Stored(search)) <= search.max_entries
        /\ \A i, j \in 1 .. Len(Stored(search)) :
              i < j => Stored(search)[i].timestamp > Stored(search)[j].timestamp

C39_Step ==
    LET before == Stored(search)
        after == Stored(search')
        call == search'
    IN /\ (call.op = "add_entry" /\ ~call.io_failed) =>
             /\ call.ok
             /\ after = Truncate(<<call.item>> \o before, call.max_entries)
             /\ call.max_entries > 0 =>
                   /\ after[1] = call.item
                   /\ Len(after) = Min(Len(before) + 1, call.max_entries)
                   /\ \A i \in 2 .. Len(after) : after[i] = before[i - 1]
       /\ (call.op = "remove" /\ ~call.io_failed) =>
             /\ call.ok
             /\ call.index < Len(before) =>
                   /\ Len(after) = Len(before) - 1
                   /\ \A i \in 1 .. call.index : after[i] = before[i]
                   /\ \A i \in (call.index + 1) .. Len(after) : after[i] = before[i + 1]
             /\ call.index >= Len(before) => after = before /\ search'.file = search.file
       /\ (call.op = "clear" /\ ~call.io_failed) => call.ok /\ after = <<>>
       /\ ~call.ok => search'.file = search.file

\* C39: from a history file that does not exist, after every sequence of add_entry,
\* remove and clear the stored history has at most max_entries items, newest
\* first; add_entry puts the item at index 0 and keeps the max_entries newest,
\* remove(i) deletes item i alone, or changes nothing and returns Ok when i is out
\* of range, and clear leaves the history empty (each when its reads and writes of
\* the file succeed; a call that returns Err leaves the file as it was).
C39_HistoryBounded == [] C39_State /\ [][C39_Step]_vars

\* max_entries is 2; after three add_entry calls the oldest item was discarded, and
\* remove(0) has then taken the newest away
C39_Witness ==
    /\ search.pc = "history"
    /\ search.max_entries = 2
    /\ search.op = "remove" /\ search.index = 0 /\ search.ok
    /\ search.calls = 4
    /\ Len(Stored(search)) = 1
    /\ Stored(search)[1].timestamp = 2

====
